---------------------------- MODULE Spec2Model ----------------------------
(***************************************************************************)
(* Submission intake pipeline of the academic-integrity network.           *)
(*                                                                         *)
(* Text (str) and byte strings (bytes) are sequences of one-character      *)
(* strings.  A byte that is not ASCII is written as the token of its hex   *)
(* value ("0xFF"), so that UTF-8 decoding has something to refuse.         *)
(***************************************************************************)
EXTENDS Integers, Sequences, FiniteSets, TLC

(***************************************************************************)
(* Bounds of the model.                                                    *)
(***************************************************************************)
\* Invocations of the intake handler; each is independent of the others and
\* they run concurrently.
NumInvocations == 2
\* MAX_FILE_SIZE is read from the environment (default 52428800, 1048576 in
\* the tests); the model configures a ceiling of a few bytes.
MAX_FILE_SIZE == 2

(***************************************************************************)
(* Python values.                                                          *)
(***************************************************************************)
\* None, as the filename of a part that has no filename parameter.
None == <<"<None>">>

FILE == <<"f", "i", "l", "e">>
STUDENT_ID == <<"s", "t", "u", "d", "e", "n", "t", "_", "i", "d">>
COURSE_ID == <<"c", "o", "u", "r", "s", "e", "_", "i", "d">>
SECTION_ID == <<"s", "e", "c", "t", "i", "o", "n", "_", "i", "d">>

\* The tuple the handler iterates over when it looks for missing fields.
REQUIRED_FIELDS == <<STUDENT_ID, COURSE_ID, SECTION_ID>>

ALLOWED_EXTENSIONS ==
    { <<".", "p", "d", "f">>, <<".", "d", "o", "c", "x">>, <<".", "t", "x", "t">>,
      <<".", "p", "y">>, <<".", "j", "a", "v", "a">>, <<".", "c", "p", "p">>,
      <<".", "c">>, <<".", "j", "s">>, <<".", "h", "t", "m", "l">>,
      <<".", "c", "s", "s">>, <<".", "i", "p", "y", "n", "b">>, <<".", "t", "e", "x">> }

UpperChars == <<"A", "B", "C", "D", "E", "F", "G", "H", "I", "J", "K", "L", "M",
                "N", "O", "P", "Q", "R", "S", "T", "U", "V", "W", "X", "Y", "Z">>
LowerChars == <<"a", "b", "c", "d", "e", "f", "g", "h", "i", "j", "k", "l", "m",
                "n", "o", "p", "q", "r", "s", "t", "u", "v", "w", "x", "y", "z">>

\* str.lower() on one character.
LowerChar(c) ==
    IF \E k \in 1..26 : UpperChars[k] = c
    THEN LowerChars[CHOOSE k \in 1..26 : UpperChars[k] = c]
    ELSE c

\* str.lower().
Lower(s) == [k \in 1..Len(s) |-> LowerChar(s[k])]

\* str.rfind("."): the last index of ".", 0 (Python's -1) when there is none.
RFindDot(s) ==
    IF \E k \in 1..Len(s) : s[k] = "."
    THEN CHOOSE k \in 1..Len(s) : s[k] = "." /\ \A j \in (k+1)..Len(s) : s[j] # "."
    ELSE 0

\* Mutant of _get_extension: the lower-casing is dropped.
GetExtensionCaseSensitive(filename) ==
    LET idx == RFindDot(filename)
    IN  IF idx = 0 THEN <<>> ELSE SubSeq(filename, idx, Len(filename))

\* _get_extension: the lower-cased extension including the dot.
_get_extension(filename) ==
    LET idx == RFindDot(filename)
    IN  IF idx = 0 THEN <<>> ELSE Lower(SubSeq(filename, idx, Len(filename)))

\* The characters str.strip() removes.
Whitespace == {" ", "\t", "\n", "\r"}

RECURSIVE LStrip(_)
LStrip(s) ==
    IF s # <<>> /\ Head(s) \in Whitespace THEN LStrip(Tail(s)) ELSE s

RECURSIVE RStrip(_)
RStrip(s) ==
    IF s # <<>> /\ s[Len(s)] \in Whitespace
    THEN RStrip(SubSeq(s, 1, Len(s) - 1))
    ELSE s

\* str.strip().
Strip(s) == RStrip(LStrip(s))

\* Bytes outside ASCII that the model's requests may carry: the two bytes of
\* U+00E9 and a byte that no UTF-8 sequence contains.
NonAscii == {"0xC3", "0xA9", "0xFF"}

\* Whether the byte at index k opens the two-byte sequence of U+00E9.
LeadAt(b, k) == b[k] = "0xC3" /\ k < Len(b) /\ b[k + 1] = "0xA9"

\* Whether the byte at index k is the second byte of such a sequence.
ContinuationAt(b, k) == b[k] = "0xA9" /\ k > 1 /\ b[k - 1] = "0xC3"

\* Whether bytes.decode("utf-8") succeeds.
Utf8Valid(b) ==
    \A k \in 1..Len(b) : b[k] \in NonAscii => LeadAt(b, k) \/ ContinuationAt(b, k)

\* The characters of b, with replacement standing for a byte that is no part
\* of a UTF-8 sequence.
DecodeWith(b, replacement) ==
    LET NotDropped(c) == c # ""
        chars == [k \in 1..Len(b) |->
                     IF b[k] \notin NonAscii THEN b[k]
                     ELSE IF LeadAt(b, k) THEN "U+00E9"
                     ELSE IF ContinuationAt(b, k) THEN ""
                     ELSE replacement]
    IN  SelectSeq(chars, NotDropped)

\* bytes.decode("utf-8") of bytes it accepts.
Utf8Decode(b) == DecodeWith(b, "U+FFFD")

Digits == <<"0", "1", "2", "3", "4", "5", "6", "7", "8", "9">>

\* str(n) of a natural number.
RECURSIVE DecStr(_)
DecStr(n) ==
    IF n < 10 THEN <<Digits[n + 1]>>
    ELSE DecStr(n \div 10) \o <<Digits[(n % 10) + 1]>>

(***************************************************************************)
(* Responses.                                                              *)
(***************************************************************************)
\* _build_response(status_code, body); the CORS headers are the same table
\* in every response and are left out.
_build_response(status_code, body) == [statusCode |-> status_code, body |-> body]

\* An {"error": ...} body: the fixed text and the value formatted into it.
ErrorBody(msg, arg) == [error |-> [msg |-> msg, arg |-> arg]]

(***************************************************************************)
(* Validation of the decoded parts (steps 4 to 6 of the handler).          *)
(***************************************************************************)
Rejected(status_code, msg, arg) ==
    [kind |-> "reject", resp |-> _build_response(status_code, ErrorBody(msg, arg))]

\* An exception that leaves the validation and reaches the handler's
\* outermost except clause.
Raised(exc) == [kind |-> "raise", exc |-> exc]

Validated(file_content, original_filename, student_id, course_id, section_id, extension, file_size) ==
    [kind |-> "ok",
     file_content |-> file_content,
     original_filename |-> original_filename,
     student_id |-> student_id,
     course_id |-> course_id,
     section_id |-> section_id,
     extension |-> extension,
     file_size |-> file_size]

\* Mutant of FileTooLarge: >= in place of >.
FileTooLargeAtCeiling(file_size) == file_size >= MAX_FILE_SIZE

\* The size test of step 6.
FileTooLarge(file_size) == file_size > MAX_FILE_SIZE

\* Steps 4 to 6 of lambda_handler on the mapping _parse_multipart returned:
\* a rejection, an exception, or the validated submission.
Validate(parts) ==
    IF FILE \notin DOMAIN parts \/ parts[FILE].filename = None
    THEN Rejected(400, "Missing required field: ", FILE)
    ELSE IF \E k \in 1..3 : REQUIRED_FIELDS[k] \notin DOMAIN parts
    THEN LET k == CHOOSE k \in 1..3 :
                      /\ REQUIRED_FIELDS[k] \notin DOMAIN parts
                      /\ \A j \in 1..(k-1) : REQUIRED_FIELDS[j] \in DOMAIN parts
         IN  Rejected(400, "Missing required field: ", REQUIRED_FIELDS[k])
    ELSE IF \E k \in 1..3 : ~Utf8Valid(parts[REQUIRED_FIELDS[k]].value)
    THEN Raised("UnicodeDecodeError")
    ELSE LET file_content == parts[FILE].value
             original_filename == parts[FILE].filename
             student_id == Strip(Utf8Decode(parts[STUDENT_ID].value))
             course_id == Strip(Utf8Decode(parts[COURSE_ID].value))
             section_id == Strip(Utf8Decode(parts[SECTION_ID].value))
             extension == _get_extension(original_filename)
             file_size == Len(file_content)
         IN  IF student_id = <<>> \/ course_id = <<>> \/ section_id = <<>>
             THEN Rejected(400, "student_id, course_id, and section_id must not be empty", <<>>)
             ELSE IF extension \notin ALLOWED_EXTENSIONS
             THEN Rejected(400, "Invalid file type", extension)
             ELSE IF FileTooLarge(file_size)
             THEN Rejected(413, "File too large", DecStr(file_size))
             ELSE Validated(file_content, original_filename, student_id, course_id,
                            section_id, extension, file_size)

(***************************************************************************)
(* The multipart decoder.                                                  *)
(***************************************************************************)
\* Whether pat occurs in s at index i.
StartsWithAt(s, i, pat) ==
    /\ i >= 1
    /\ i + Len(pat) - 1 <= Len(s)
    /\ SubSeq(s, i, i + Len(pat) - 1) = pat

\* The least index >= i at which pat occurs in s, 0 when there is none.
FindFrom(s, pat, i) ==
    LET hits == {j \in i..(Len(s) - Len(pat) + 1) : StartsWithAt(s, j, pat)}
    IN  IF hits = {} THEN 0 ELSE CHOOSE j \in hits : \A h \in hits : j <= h

\* pat in s.
Contains(s, pat) == FindFrom(s, pat, 1) # 0

\* bytes.split(delim): the pieces between the occurrences of delim, scanned
\* from the left without overlap.
RECURSIVE Split(_, _)
Split(s, delim) ==
    LET i == FindFrom(s, delim, 1)
    IN  IF i = 0 THEN <<s>>
        ELSE <<SubSeq(s, 1, i - 1)>> \o Split(SubSeq(s, i + Len(delim), Len(s)), delim)

\* str.strip(chars) for a one-character set.
RECURSIVE StripChar(_, _)
StripChar(s, c) ==
    IF s # <<>> /\ Head(s) = c THEN StripChar(Tail(s), c)
    ELSE IF s # <<>> /\ s[Len(s)] = c THEN StripChar(SubSeq(s, 1, Len(s) - 1), c)
    ELSE s

\* The length of the longest run of characters outside stop that starts at i.
RunLen(s, i, stop) ==
    LET stops == {j \in i..Len(s) : s[j] \in stop}
    IN  IF stops = {} THEN Len(s) + 1 - i
        ELSE (CHOOSE j \in stops : \A h \in stops : j <= h) - i

BOUNDARY_KEY == <<"b", "o", "u", "n", "d", "a", "r", "y", "=">>
NAME_KEY == <<"n", "a", "m", "e", "=", "\"">>
FILENAME_KEY == <<"f", "i", "l", "e", "n", "a", "m", "e", "=", "\"">>
CRLF == <<"\r", "\n">>
CRLFCRLF == <<"\r", "\n", "\r", "\n">>
LFLF == <<"\n", "\n">>
DASHES == <<"-", "-">>

\* re.search(r"boundary=([^\s;]+)", content_type): the index of the leftmost
\* match from i on, 0 when there is none.
RECURSIVE BoundaryMatchFrom(_, _)
BoundaryMatchFrom(content_type, i) ==
    LET j == FindFrom(content_type, BOUNDARY_KEY, i)
    IN  IF j = 0 THEN 0
        ELSE IF RunLen(content_type, j + Len(BOUNDARY_KEY), Whitespace \cup {";"}) >= 1
        THEN j
        ELSE BoundaryMatchFrom(content_type, j + 1)

\* Mutant of QuotedMatchFrom: the group must have at least one character,
\* whatever the pattern says.
RECURSIVE QuotedMatchNonEmpty(_, _, _, _)
QuotedMatchNonEmpty(text, key, least, i) ==
    LET j == FindFrom(text, key, i)
        start == j + Len(key)
        n == RunLen(text, start, {"\""})
    IN  IF j = 0 THEN 0
        ELSE IF n >= 1 /\ start + n <= Len(text)
        THEN j
        ELSE QuotedMatchNonEmpty(text, key, least, j + 1)

\* re.search(key + r'([^"]{least,})"', text) for a key that ends in its opening
\* quote: the index of the leftmost match from i on, 0 when there is none.
RECURSIVE QuotedMatchFrom(_, _, _, _)
QuotedMatchFrom(text, key, least, i) ==
    LET j == FindFrom(text, key, i)
        start == j + Len(key)
        n == RunLen(text, start, {"\""})
    IN  IF j = 0 THEN 0
        ELSE IF n >= least /\ start + n <= Len(text)
        THEN j
        ELSE QuotedMatchFrom(text, key, least, j + 1)

\* group(1) of the match of key at index j.
QuotedGroup(text, key, j) ==
    LET start == j + Len(key)
    IN  SubSeq(text, start, start + RunLen(text, start, {"\""}) - 1)

\* bytes.decode("utf-8", errors="replace").
Utf8DecodeReplace(b) == DecodeWith(b, "U+FFFD")

\* The segments the loop of _parse_multipart skips as preamble or closing
\* delimiter.
SkippedSegment(part) ==
    part = <<>> \/ Strip(part) \in {<<>>, DASHES, DASHES \o CRLF}

\* Mutant of SetItem: a key that is already there keeps its value.
SetItemKeepFirst(d, key, value) ==
    [k \in DOMAIN d \cup {key} |-> IF k \in DOMAIN d THEN d[k] ELSE value]

\* dict[key] = value.
SetItem(d, key, value) ==
    [k \in DOMAIN d \cup {key} |-> IF k = key THEN value ELSE d[k]]

\* The empty dict.
EmptyDict == [k \in {} |-> 0]

\* Mutant of ParseSegment: every CR and LF at the end of the content is
\* stripped, not one CRLF.
ParseSegmentRStrip(parsed, part) ==
    IF SkippedSegment(part) THEN parsed
    ELSE IF ~Contains(part, CRLFCRLF) /\ ~Contains(part, LFLF) THEN parsed
    ELSE LET sep == IF Contains(part, CRLFCRLF) THEN CRLFCRLF ELSE LFLF
             at == FindFrom(part, sep, 1)
             raw_headers == SubSeq(part, 1, at - 1)
             body0 == SubSeq(part, at + Len(sep), Len(part))
             raw_body == StripChar(StripChar(StripChar(StripChar(body0
                             \o <<"|">>, "|"), "\n"), "\r"), "\n")
             header_text == Utf8DecodeReplace(raw_headers)
             name_match == QuotedMatchFrom(header_text, NAME_KEY, 1, 1)
             filename_match == QuotedMatchFrom(header_text, FILENAME_KEY, 0, 1)
         IN  IF name_match = 0 THEN parsed
             ELSE SetItem(parsed,
                          QuotedGroup(header_text, NAME_KEY, name_match),
                          [value |-> raw_body,
                           filename |-> IF filename_match = 0 THEN None
                                        ELSE QuotedGroup(header_text, FILENAME_KEY,
                                                         filename_match)])

\* One iteration of the loop of _parse_multipart: parsed after the segment.
ParseSegment(parsed, part) ==
    IF SkippedSegment(part) THEN parsed
    ELSE IF ~Contains(part, CRLFCRLF) /\ ~Contains(part, LFLF) THEN parsed
    ELSE LET sep == IF Contains(part, CRLFCRLF) THEN CRLFCRLF ELSE LFLF
             at == FindFrom(part, sep, 1)
             raw_headers == SubSeq(part, 1, at - 1)
             body0 == SubSeq(part, at + Len(sep), Len(part))
             raw_body == IF StartsWithAt(body0, Len(body0) - 1, CRLF)
                         THEN SubSeq(body0, 1, Len(body0) - 2)
                         ELSE body0
             header_text == Utf8DecodeReplace(raw_headers)
             name_match == QuotedMatchFrom(header_text, NAME_KEY, 1, 1)
             filename_match == QuotedMatchFrom(header_text, FILENAME_KEY, 0, 1)
         IN  IF name_match = 0 THEN parsed
             ELSE SetItem(parsed,
                          QuotedGroup(header_text, NAME_KEY, name_match),
                          [value |-> raw_body,
                           filename |-> IF filename_match = 0 THEN None
                                        ELSE QuotedGroup(header_text, FILENAME_KEY,
                                                         filename_match)])

RECURSIVE ParseSegments(_, _)
ParseSegments(parsed, parts) ==
    IF parts = <<>> THEN parsed
    ELSE ParseSegments(ParseSegment(parsed, Head(parts)), Tail(parts))

\* _parse_multipart(content_type, body_bytes): ok is FALSE when ValueError is
\* raised for the missing boundary, and parts is the dict returned otherwise.
_parse_multipart(content_type, body_bytes) ==
    LET m == BoundaryMatchFrom(content_type, 1)
        first == m + Len(BOUNDARY_KEY)
        group == SubSeq(content_type, first,
                        first + RunLen(content_type, first, Whitespace \cup {";"}) - 1)
        boundary == StripChar(StripChar(group, "\""), "'")
        delimiter == DASHES \o boundary
    IN  IF m = 0 THEN [ok |-> FALSE, parts |-> EmptyDict]
        ELSE [ok |-> TRUE, parts |-> ParseSegments(EmptyDict, Split(body_bytes, delimiter))]

(***************************************************************************)
(* Requests.                                                               *)
(*                                                                         *)
(* An event carries the HTTP method, the Content-Type header as the        *)
(* handler resolves it ("" when absent), the body as the bytes the handler *)
(* obtains from it (after the base64 or UTF-8 step) and the authorizer     *)
(* claims (None for a claim that is absent).                               *)
(***************************************************************************)
MULTIPART == <<"m", "u", "l", "t", "i", "p", "a", "r", "t", "/", "f", "o", "r", "m",
               "-", "d", "a", "t", "a">>
BOUNDARY == <<"-", "-", "-", "-", "T", "B">>
DISPOSITION == <<"C", "o", "n", "t", "e", "n", "t", "-", "D", "i", "s", "p", "o", "s",
                 "i", "t", "i", "o", "n", ":", " ", "f", "o", "r", "m", "-", "d", "a",
                 "t", "a", ";", " ", "n", "a", "m", "e", "=", "\"">>
FILENAME_PARAM == <<"\"", ";", " ", "f", "i", "l", "e", "n", "a", "m", "e", "=", "\"">>
OCTET_STREAM == <<"C", "o", "n", "t", "e", "n", "t", "-", "T", "y", "p", "e", ":", " ",
                  "a", "p", "p", "l", "i", "c", "a", "t", "i", "o", "n", "/", "o", "c",
                  "t", "e", "t", "-", "s", "t", "r", "e", "a", "m">>

\* One form field of _build_multipart_body.
FieldPart(name, value) ==
    DASHES \o BOUNDARY \o CRLF \o DISPOSITION \o name \o <<"\"">> \o CRLF
        \o CRLF \o value \o CRLF

\* The file part of _build_multipart_body.
FilePart(file_field_name, file_name, file_content) ==
    DASHES \o BOUNDARY \o CRLF \o DISPOSITION \o file_field_name \o FILENAME_PARAM
        \o file_name \o <<"\"">> \o CRLF \o OCTET_STREAM \o CRLF
        \o CRLF \o file_content \o CRLF

RECURSIVE FieldParts(_)
FieldParts(fields) ==
    IF fields = <<>> THEN <<>>
    ELSE FieldPart(Head(fields)[1], Head(fields)[2]) \o FieldParts(Tail(fields))

\* _build_multipart_body of the handler's tests: the form fields (pairs of
\* name and value), then the file part unless file_name is None, then the
\* closing delimiter.
_build_multipart_body(fields, file_content, file_field_name, file_name) ==
    FieldParts(fields)
        \o (IF file_name = None THEN <<>>
            ELSE FilePart(file_field_name, file_name, file_content))
        \o DASHES \o BOUNDARY \o DASHES \o CRLF

\* The Content-Type header _make_apigw_event sends by default.
MultipartContentType ==
    MULTIPART \o <<";", " ">> \o BOUNDARY_KEY \o BOUNDARY

\* _make_apigw_event.
_make_apigw_event(method, content_type, body_bytes, sub, email) ==
    [httpMethod |-> method, content_type |-> content_type, body |-> body_bytes,
     sub |-> sub, email |-> email]

S1 == <<"s", "1">>
S2 == <<"s", "2">>
CS101 == <<"C", "S", "1", "0", "1">>
SECTION_A == <<"A">>
EMAIL == "student@university.edu"

\* A file of n bytes.
FileOfSize(n) == [k \in 1..n |-> "x"]

\* What the client put into the form: the fields in body order, and the file
\* part (file_name is None when the form has no file part).
Form(fields, file_name, file_content) ==
    [fields |-> fields, file_name |-> file_name, file_content |-> file_content]

NoForm == Form(<<>>, None, <<>>)

\* A request, with the form it encodes.
Request(event, form) == [event |-> event, sent |-> form]

\* A POST of the form as multipart/form-data with the default Content-Type.
Upload(fields, file_name, file_content, sub) ==
    Request(_make_apigw_event("POST", MultipartContentType,
                _build_multipart_body(fields, file_content, FILE, file_name), sub, EMAIL),
            Form(fields, file_name, file_content))

\* The three identifier fields.
Ids(student, course, section) ==
    <<<<STUDENT_ID, student>>, <<COURSE_ID, course>>, <<SECTION_ID, section>>>>

\* The requests the invocations are drawn from: the preflight, one request
\* for each way of being turned away, and uploads that pass validation.
RequestList ==
    << \* 1: CORS preflight
       Request(_make_apigw_event("OPTIONS", <<>>, <<>>, None, "unknown"), NoForm),
       \* 2: empty body
       Request(_make_apigw_event("POST", MultipartContentType, <<>>, S1, EMAIL), NoForm),
       \* 3: Content-Type application/json
       Request(_make_apigw_event("POST",
                   <<"a", "p", "p", "l", "i", "c", "a", "t", "i", "o", "n", "/", "j", "s",
                     "o", "n">>,
                   <<"{", "}">>, S1, EMAIL), NoForm),
       \* 4: multipart/form-data without a boundary
       Request(_make_apigw_event("POST", MULTIPART,
                   _build_multipart_body(Ids(S1, CS101, SECTION_A), <<"x">>, FILE,
                                         <<"a", ".", "c">>),
                   S1, EMAIL),
               Form(Ids(S1, CS101, SECTION_A), <<"a", ".", "c">>, <<"x">>)),
       \* 5: no file part
       Upload(Ids(S1, CS101, SECTION_A), None, <<>>, S1),
       \* 6: no course_id part
       Upload(<<<<STUDENT_ID, S1>>, <<SECTION_ID, SECTION_A>>>>, <<"a", ".", "c">>,
              <<"x">>, S1),
       \* 7: student_id of blanks only
       Upload(Ids(<<" ", " ">>, CS101, SECTION_A), <<"a", ".", "c">>, <<"x">>, S1),
       \* 8: disallowed extension
       Upload(Ids(S1, CS101, SECTION_A), <<"m", ".", "e", "x", "e">>, <<"x">>, S1),
       \* 9: one byte over the ceiling
       Upload(Ids(S1, CS101, SECTION_A), <<"a", ".", "c">>,
              FileOfSize(MAX_FILE_SIZE + 1), S1),
       \* 10: course_id that is not UTF-8
       Upload(Ids(S1, <<"0xFF">>, SECTION_A), <<"a", ".", "c">>, <<"x">>, S1),
       \* 11: empty section_id together with a course_id that is not UTF-8
       Upload(Ids(S1, <<"0xFF">>, <<>>), <<"a", ".", "c">>, <<"x">>, S1),
       \* 12: a valid upload at the ceiling, padded student_id, upper-case extension
       Upload(Ids(<<" ">> \o S1 \o <<" ">>, CS101, SECTION_A),
              <<"a", ".", "P", "D", "F">>, FileOfSize(MAX_FILE_SIZE), S1),
       \* 13: a valid upload of an empty file by a caller without claims
       Upload(Ids(S2, CS101, SECTION_A), <<"b", ".", "c">>, <<>>, None),
       \* 14: a valid upload by caller s1 whose form names student s2
       Upload(Ids(S2, CS101, SECTION_A), <<"a", ".", "c">>, <<"x">>, S1) >>

\* The API Gateway events of the requests.
EventList == [k \in DOMAIN RequestList |-> RequestList[k].event]

Events == DOMAIN EventList

(***************************************************************************)
(* lambda_handler up to the end of validation (steps 1 to 6).              *)
(***************************************************************************)
ANONYMOUS == <<"a", "n", "o", "n", "y", "m", "o", "u", "s">>

\* claims.get("sub", "anonymous").
UserId(event) == IF event.sub = None THEN ANONYMOUS ELSE event.sub

\* The handler from its entry to the end of step 6: the preflight answer, an
\* early return, an exception, or the validated submission.
DecodeAndValidate(event) ==
    IF event.httpMethod = "OPTIONS"
    THEN [kind |-> "options", resp |-> _build_response(200, [message |-> "OK"])]
    ELSE IF event.body = <<>>
    THEN Rejected(400, "Empty request body", <<>>)
    ELSE IF ~Contains(event.content_type, MULTIPART)
    THEN Rejected(400, "Content-Type must be multipart/form-data", <<>>)
    ELSE LET parsed == _parse_multipart(event.content_type, event.body)
         IN  IF ~parsed.ok
             THEN Rejected(400, "Malformed multipart body: ",
                           <<"Missing boundary in Content-Type header">>)
             ELSE Validate(parsed.parts)

\* DecodeAndValidate of every request of EventList.
Preflight == [k \in Events |-> DecodeAndValidate(EventList[k])]

(***************************************************************************)
(* Steps 7 to 11 of lambda_handler: identifiers, the two stores, the audit *)
(* notification and the response.                                          *)
(***************************************************************************)
SUBMISSIONS_PREFIX == <<"s", "u", "b", "m", "i", "s", "s", "i", "o", "n", "s", "/">>
S3_SCHEME == <<"s", "3", ":", "/", "/">>
\* RAW_BUCKET, as the deployment configures it.
RAW_BUCKET == <<"r", "a", "w", "-", "b", "u", "c", "k", "e", "t">>

\* str(uuid.uuid4()): the n-th identifier handed out.  An identifier is one
\* token: no request text contains it, and no two draws return the same.
UuidTokens == <<"uuid-1", "uuid-2", "uuid-3", "uuid-4", "uuid-5", "uuid-6">>
\* Mutant of Uuid4: the identifier is drawn once, when the module is loaded,
\* and every invocation uses it.
Uuid4AtImport(n) == <<UuidTokens[1]>>

Uuid4(n) == <<UuidTokens[n]>>

\* The submission_id of an invocation that has generated none.
NoId == <<>>

\* _sha256(data): the digest is kept as a term over the data, so that equal
\* digests mean equal data.
_sha256(data) == [sha256 |-> data]

\* Mutant of S3Key: the filename is lower-cased on the way into the key.
S3KeyLowerCased(student_id, submission_id, original_filename) ==
    SUBMISSIONS_PREFIX \o student_id \o <<"/">> \o submission_id \o <<"/">>
        \o Lower(original_filename)

\* s3_key = f"submissions/{student_id}/{submission_id}/{original_filename}".
S3Key(student_id, submission_id, original_filename) ==
    SUBMISSIONS_PREFIX \o student_id \o <<"/">> \o submission_id \o <<"/">>
        \o original_filename

\* f"s3://{RAW_BUCKET}/{s3_key}".
FilePath(s3_key) == S3_SCHEME \o RAW_BUCKET \o <<"/">> \o s3_key

(***************************************************************************)
(* get-submission-metadata: the caller, the access decision and the        *)
(* sanitised record.                                                       *)
(***************************************************************************)
\* The Lambda functions.
INTAKE == "intake-handler"
METADATA == "get-submission-metadata"
STATUS == "get-submission-status"
AUDIT_LOGGER == "audit-logger"
NoHandler == "none"

FACULTY == <<"F", "a", "c", "u", "l", "t", "y">>
ADMIN == <<"A", "d", "m", "i", "n">>
STUDENTS == <<"S", "t", "u", "d", "e", "n", "t", "s">>

INTERNAL_FIELDS == {"_version", "_ttl", "_internal_flags"}

\* str.replace(old, new) for one-character old and new.
Replace(s, old, new) == [n \in 1..Len(s) |-> IF s[n] = old THEN new ELSE s[n]]

\* str.split(): the runs of characters between whitespace, from the left.
RECURSIVE SplitWhitespace(_)
SplitWhitespace(s) ==
    LET t == LStrip(s)
    IN  IF t = <<>> THEN <<>>
        ELSE LET n == RunLen(t, 1, Whitespace)
             IN  <<SubSeq(t, 1, n)>> \o SplitWhitespace(SubSeq(t, n + 1, Len(t)))

\* _extract_user_info(event): a claim that is absent reads as "".
_extract_user_info(event) ==
    [sub |-> IF "sub" \in DOMAIN event.claims THEN event.claims.sub ELSE <<>>,
     email |-> IF "email" \in DOMAIN event.claims THEN event.claims.email ELSE <<>>,
     groups |-> IF "groups" \in DOMAIN event.claims THEN event.claims.groups ELSE <<>>]

\* The outcome of step 4: the branch taken, and the 403 response when the
\* branch returns.
\* Mutant of AccessDenied: a denied caller is told that there is no such
\* record.
AccessDeniedAsNotFound(path) ==
    [kind |-> "reject", path |-> path,
     resp |-> _build_response(404, ErrorBody("Submission not found", <<>>))]

AccessGranted(path) == [kind |-> "ok", path |-> path]
AccessDenied(path) ==
    [kind |-> "reject", path |-> path,
     resp |-> _build_response(403,
                  ErrorBody("You are not authorised to access this submission", <<>>))]

\* Mutant of _user_in_group: the group name is looked for anywhere in the
\* claim.
UserInGroupSubstring(user_info, group_name) == Contains(user_info.groups, group_name)

\* _user_in_group(user_info, group_name).
_user_in_group(user_info, group_name) ==
    LET groups_raw == user_info.groups
    IN  IF groups_raw = <<>> THEN FALSE
        ELSE LET split == SplitWhitespace(Replace(groups_raw, ",", " "))
                 groups == [n \in DOMAIN split |-> Strip(split[n])]
             IN  \E n \in DOMAIN groups : groups[n] = group_name

\* item.get("student_id"): None when the item has no such attribute.
OwnerOf(item) == IF "student_id" \in DOMAIN item THEN item.student_id ELSE None

\* Step 4 of the reader, the authorisation.
Authorise(user_info, item) ==
    LET is_faculty == _user_in_group(user_info, FACULTY)
        is_admin == _user_in_group(user_info, ADMIN)
        is_student == _user_in_group(user_info, STUDENTS)
    IN  IF is_faculty \/ is_admin THEN AccessGranted("privileged")
        ELSE IF is_student
        THEN IF OwnerOf(item) # user_info.sub
             THEN AccessDenied("not_owner")
             ELSE AccessGranted("owner")
        ELSE AccessDenied("no_group")

\* Mutant of Sanitise: the time-to-live attribute is let through.
SanitiseLeavesTtl(item) == [k \in DOMAIN item \ {"_version", "_internal_flags"} |-> item[k]]

\* Step 6: the item without the internal fields.
Sanitise(item) == [k \in DOMAIN item \ INTERNAL_FIELDS |-> item[k]]

VARIABLES
    \* AUDIT_FUNCTION_NAME of the deployment: "" when none is configured.
    AUDIT_FUNCTION_NAME,
    \* Per invocation, the place the handler has reached: "idle" before the
    \* call, "put_object", "put_item" and "invoke" before the external call
    \* of that name, "done" after the return.
    pc,
    \* Per invocation, the request and the values of step 7.
    frame,
    \* Per invocation, the external calls made so far and how each ended.
    calls,
    \* Per invocation, the response returned.
    response,
    \* The objects of the raw bucket.
    s3,
    \* The items of the submissions table.
    table,
    \* The payloads the Lambda service accepted for the audit-logger.
    audit,
    \* How many identifiers uuid4() has handed out.
    issued,
    \* The wall clock: the last reading datetime.now() returned.
    clock,
    \* The decoded parts under validation and the outcome, for the
    \* specification of the validation alone.
    vparts, vresult,
    \* Per invocation, the Lambda function that runs in it.
    handler,
    \* Per invocation of a reader, the request and the item get_item
    \* returned.
    rframe,
    \* The items of the audit table.
    audit_table,
    \* The caller and the item under the access decision and the outcome,
    \* for the specification of the decision alone.
    ainput, aresult,
    \* The decoder alone: a Content-Type header with a body, and what
    \* _parse_multipart and the validation make of them.
    pinput, presult

vars == <<AUDIT_FUNCTION_NAME, pc, frame, calls, response, s3, table, audit, issued,
          clock, vparts, vresult, handler, rframe, audit_table, ainput, aresult,
          pinput, presult>>

\* The variables of the access decision alone.
accessVars == <<ainput, aresult, pinput, presult>>

\* What a step of the intake handler after its entry leaves alone.
handlerVars == <<handler, rframe, audit_table, accessVars>>

Invocations == 1..NumInvocations

NoResponse == [statusCode |-> 0, body |-> [message |-> "none"]]
NoFrame == [event |-> 0, submission_id |-> NoId, upload_timestamp |-> 0]
Pending == [kind |-> "pending"]

\* The item of a lookup that found nothing, or that has not been made.
NoItem == [k \in {} |-> 0]
\* The frame of an invocation that is not a reader's.
NoRead == [request |-> 0, item |-> NoItem]
\* No caller under decision.
\* No body under decoding.
NoParse == [content_type |-> <<>>, segments |-> <<>>, body |-> <<>>]
NoAccess == [user_info |-> [sub |-> <<>>, email |-> <<>>, groups |-> <<>>], item |-> NoItem]

\* The locals of invocation i after step 6.
V(i) == Preflight[frame[i].event]
EventOf(i) == EventList[frame[i].event]
Sha(i) == _sha256(V(i).file_content)
KeyOf(i) == S3Key(V(i).student_id, frame[i].submission_id, V(i).original_filename)

\* The object put_object writes (step 8).
S3Object(i) ==
    [Key |-> KeyOf(i),
     Body |-> V(i).file_content,
     Metadata |-> [submission_id |-> frame[i].submission_id,
                   student_id |-> V(i).student_id,
                   sha256 |-> Sha(i)]]

\* The item of step 9 for a validated submission v of the caller of event.
ItemFor(v, submission_id, upload_timestamp, event) ==
    [submission_id |-> submission_id,
     student_id |-> v.student_id,
     course_id |-> v.course_id,
     section_id |-> v.section_id,
     file_path |-> FilePath(S3Key(v.student_id, submission_id, v.original_filename)),
     file_name |-> v.original_filename,
     file_size |-> v.file_size,
     file_type |-> v.extension,
     sha256_hash |-> _sha256(v.file_content),
     upload_timestamp |-> upload_timestamp,
     status |-> "uploaded",
     user_id |-> UserId(event),
     email |-> event.email]

\* The item put_item writes (step 9).
Item(i) == ItemFor(V(i), frame[i].submission_id, frame[i].upload_timestamp, EventOf(i))

\* Mutant of AuditPayload: the event carries the identifier handed out last,
\* by whichever invocation, not the one of this invocation.
AuditPayloadLatestId(i) ==
    [event_type |-> "UPLOAD",
     submission_id |-> Uuid4(issued),
     student_id |-> V(i).student_id,
     course_id |-> V(i).course_id,
     section_id |-> V(i).section_id,
     file_name |-> V(i).original_filename,
     file_size |-> V(i).file_size,
     sha256_hash |-> Sha(i),
     upload_timestamp |-> frame[i].upload_timestamp,
     user_id |-> UserId(EventOf(i)),
     email |-> EventOf(i).email]

\* The payload of the audit notification (step 10).
AuditPayload(i) ==
    [event_type |-> "UPLOAD",
     submission_id |-> frame[i].submission_id,
     student_id |-> V(i).student_id,
     course_id |-> V(i).course_id,
     section_id |-> V(i).section_id,
     file_name |-> V(i).original_filename,
     file_size |-> V(i).file_size,
     sha256_hash |-> Sha(i),
     upload_timestamp |-> frame[i].upload_timestamp,
     user_id |-> UserId(EventOf(i)),
     email |-> EventOf(i).email]

\* The body of the success response (step 11).
SuccessBody(i) ==
    [message |-> "File uploaded successfully",
     submission_id |-> frame[i].submission_id,
     file_name |-> V(i).original_filename,
     file_size |-> V(i).file_size,
     sha256_hash |-> Sha(i),
     upload_timestamp |-> frame[i].upload_timestamp,
     status |-> "uploaded"]

\* S3 put_object and DynamoDB put_item replace what is stored under the key.
PutObject(bucket, obj) == {o \in bucket : o.Key # obj.Key} \cup {obj}
PutItem(items, item) ==
    {r \in items : r.submission_id # item.submission_id} \cup {item}

Init ==
    /\ AUDIT_FUNCTION_NAME \in {"", "audit-logger"}
    /\ pc = [i \in Invocations |-> "idle"]
    /\ frame = [i \in Invocations |-> NoFrame]
    /\ calls = [i \in Invocations |-> <<>>]
    /\ response = [i \in Invocations |-> NoResponse]
    /\ s3 = {}
    /\ table = {}
    /\ audit = {}
    /\ issued = 0
    /\ clock = 0
    /\ vparts = EmptyDict
    /\ vresult = Pending
    /\ handler = [i \in Invocations |-> NoHandler]
    /\ rframe = [i \in Invocations |-> NoRead]
    /\ audit_table = {}
    /\ ainput = NoAccess
    /\ aresult = Pending
    /\ pinput = NoParse
    /\ presult = Pending

\* Mutant of Invoke: without the outermost except clause, what steps 1 to 6
\* raise leaves the handler.
InvokeReraises(i, k) ==
    /\ pc[i] = "idle"
    /\ UNCHANGED <<AUDIT_FUNCTION_NAME, calls, s3, table, audit, vparts, vresult, rframe, audit_table,
                   accessVars>>
    /\ handler' = [handler EXCEPT ![i] = INTAKE]
    /\ IF Preflight[k].kind = "ok"
       THEN /\ frame' = [frame EXCEPT ![i] =
                            [event |-> k,
                             submission_id |-> Uuid4(issued + 1),
                             upload_timestamp |-> clock + 1]]
            /\ issued' = issued + 1
            /\ clock' = clock + 1
            /\ pc' = [pc EXCEPT ![i] = "put_object"]
            /\ response' = [response EXCEPT ![i] = NoResponse]
       ELSE /\ frame' = [frame EXCEPT ![i] =
                            [event |-> k, submission_id |-> NoId, upload_timestamp |-> 0]]
            /\ UNCHANGED <<issued, clock>>
            /\ IF Preflight[k].kind = "raise"
               THEN /\ pc' = [pc EXCEPT ![i] = "raised"]
                    /\ response' = [response EXCEPT ![i] = NoResponse]
               ELSE /\ pc' = [pc EXCEPT ![i] = "done"]
                    /\ response' = [response EXCEPT ![i] = Preflight[k].resp]

\* An invocation of lambda_handler with request k, from its entry to the
\* first external call or to an early return: steps 1 to 7, and the outermost
\* except clause for what steps 1 to 6 raise.
Invoke(i, k) ==
    /\ pc[i] = "idle"
    /\ UNCHANGED <<AUDIT_FUNCTION_NAME, calls, s3, table, audit, vparts, vresult, rframe, audit_table,
                   accessVars>>
    /\ handler' = [handler EXCEPT ![i] = INTAKE]
    /\ IF Preflight[k].kind = "ok"
       THEN /\ frame' = [frame EXCEPT ![i] =
                            [event |-> k,
                             submission_id |-> Uuid4(issued + 1),
                             upload_timestamp |-> clock + 1]]
            /\ issued' = issued + 1
            /\ clock' = clock + 1
            /\ pc' = [pc EXCEPT ![i] = "put_object"]
            /\ response' = [response EXCEPT ![i] = NoResponse]
       ELSE /\ frame' = [frame EXCEPT ![i] =
                            [event |-> k, submission_id |-> NoId, upload_timestamp |-> 0]]
            /\ UNCHANGED <<issued, clock>>
            /\ pc' = [pc EXCEPT ![i] = "done"]
            /\ response' = [response EXCEPT ![i] =
                   IF Preflight[k].kind = "raise"
                   THEN _build_response(500, ErrorBody("Internal server error", <<>>))
                   ELSE Preflight[k].resp]

\* Step 8, put_object returns.
S3PutOk(i) ==
    /\ pc[i] = "put_object"
    /\ s3' = PutObject(s3, S3Object(i))
    /\ calls' = [calls EXCEPT ![i] = Append(@, <<"put_object", "ok">>)]
    /\ pc' = [pc EXCEPT ![i] = "put_item"]
    /\ UNCHANGED <<AUDIT_FUNCTION_NAME, frame, response, table, audit, issued, clock,
                   vparts, vresult, handlerVars>>

\* Mutant of S3PutFail: the metadata record is written before the 500 is
\* returned.
S3PutFailWritesMetadata(i) ==
    /\ pc[i] = "put_object"
    /\ calls' = [calls EXCEPT ![i] = Append(@, <<"put_object", "error">>)]
    /\ table' = PutItem(table, Item(i))
    /\ response' = [response EXCEPT ![i] =
           _build_response(500, ErrorBody("Failed to upload file to storage", <<>>))]
    /\ pc' = [pc EXCEPT ![i] = "done"]
    /\ UNCHANGED <<AUDIT_FUNCTION_NAME, frame, s3, audit, issued, clock, vparts, vresult,
                   handlerVars>>

\* Mutant of S3PutFail: the exception is swallowed and the handler goes on
\* to step 9.
S3PutFailFallsThrough(i) ==
    /\ pc[i] = "put_object"
    /\ calls' = [calls EXCEPT ![i] = Append(@, <<"put_object", "error">>)]
    /\ pc' = [pc EXCEPT ![i] = "put_item"]
    /\ UNCHANGED <<AUDIT_FUNCTION_NAME, frame, response, s3, table, audit, issued, clock,
                   vparts, vresult, handlerVars>>

\* Step 8, put_object raises.
S3PutFail(i) ==
    /\ pc[i] = "put_object"
    /\ calls' = [calls EXCEPT ![i] = Append(@, <<"put_object", "error">>)]
    /\ response' = [response EXCEPT ![i] =
           _build_response(500, ErrorBody("Failed to upload file to storage", <<>>))]
    /\ pc' = [pc EXCEPT ![i] = "done"]
    /\ UNCHANGED <<AUDIT_FUNCTION_NAME, frame, s3, table, audit, issued, clock,
                   vparts, vresult, handlerVars>>

\* Step 9, put_item returns.
DynamoPutOk(i) ==
    /\ pc[i] = "put_item"
    /\ table' = PutItem(table, Item(i))
    /\ calls' = [calls EXCEPT ![i] = Append(@, <<"put_item", "ok">>)]
    /\ pc' = [pc EXCEPT ![i] = "invoke"]
    /\ UNCHANGED <<AUDIT_FUNCTION_NAME, frame, response, s3, audit, issued, clock,
                   vparts, vresult, handlerVars>>

\* Mutant of DynamoPutFail: a compensating delete removes the blob.
DynamoPutFailDeletesBlob(i) ==
    /\ pc[i] = "put_item"
    /\ calls' = [calls EXCEPT ![i] = Append(@, <<"put_item", "error">>)]
    /\ s3' = {o \in s3 : o.Key # KeyOf(i)}
    /\ response' = [response EXCEPT ![i] =
           _build_response(500, ErrorBody("Failed to record submission metadata", <<>>))]
    /\ pc' = [pc EXCEPT ![i] = "done"]
    /\ UNCHANGED <<AUDIT_FUNCTION_NAME, frame, table, audit, issued, clock, vparts, vresult,
                   handlerVars>>

\* Mutant of DynamoPutFail: the exception is swallowed and the handler goes
\* on to step 10.
DynamoPutFailSwallowed(i) ==
    /\ pc[i] = "put_item"
    /\ calls' = [calls EXCEPT ![i] = Append(@, <<"put_item", "error">>)]
    /\ pc' = [pc EXCEPT ![i] = "invoke"]
    /\ UNCHANGED <<AUDIT_FUNCTION_NAME, frame, response, s3, table, audit, issued, clock,
                   vparts, vresult, handlerVars>>

\* Step 9, put_item raises.
DynamoPutFail(i) ==
    /\ pc[i] = "put_item"
    /\ calls' = [calls EXCEPT ![i] = Append(@, <<"put_item", "error">>)]
    /\ response' = [response EXCEPT ![i] =
           _build_response(500, ErrorBody("Failed to record submission metadata", <<>>))]
    /\ pc' = [pc EXCEPT ![i] = "done"]
    /\ UNCHANGED <<AUDIT_FUNCTION_NAME, frame, s3, table, audit, issued, clock,
                   vparts, vresult, handlerVars>>

\* Steps 10 and 11 when no AUDIT_FUNCTION_NAME is configured.
AuditSkipped(i) ==
    /\ pc[i] = "invoke"
    /\ AUDIT_FUNCTION_NAME = ""
    /\ response' = [response EXCEPT ![i] = _build_response(200, SuccessBody(i))]
    /\ pc' = [pc EXCEPT ![i] = "done"]
    /\ UNCHANGED <<AUDIT_FUNCTION_NAME, frame, calls, s3, table, audit, issued, clock,
                   vparts, vresult, handlerVars>>

\* Steps 10 and 11, the Lambda service accepts the asynchronous invocation.
AuditInvokeOk(i) ==
    /\ pc[i] = "invoke"
    /\ AUDIT_FUNCTION_NAME # ""
    /\ audit' = audit \cup {AuditPayload(i)}
    /\ calls' = [calls EXCEPT ![i] = Append(@, <<"invoke", "ok">>)]
    /\ response' = [response EXCEPT ![i] = _build_response(200, SuccessBody(i))]
    /\ pc' = [pc EXCEPT ![i] = "done"]
    /\ UNCHANGED <<AUDIT_FUNCTION_NAME, frame, s3, table, issued, clock,
                   vparts, vresult, handlerVars>>

\* Mutant of AuditInvokeFail: the exception reaches the outermost except
\* clause.
AuditInvokeFailReturns500(i) ==
    /\ pc[i] = "invoke"
    /\ AUDIT_FUNCTION_NAME # ""
    /\ calls' = [calls EXCEPT ![i] = Append(@, <<"invoke", "error">>)]
    /\ response' = [response EXCEPT ![i] =
           _build_response(500, ErrorBody("Internal server error", <<>>))]
    /\ pc' = [pc EXCEPT ![i] = "done"]
    /\ UNCHANGED <<AUDIT_FUNCTION_NAME, frame, s3, table, audit, issued, clock,
                   vparts, vresult, handlerVars>>

\* Steps 10 and 11, invoke raises and the handler swallows it.
AuditInvokeFail(i) ==
    /\ pc[i] = "invoke"
    /\ AUDIT_FUNCTION_NAME # ""
    /\ calls' = [calls EXCEPT ![i] = Append(@, <<"invoke", "error">>)]
    /\ response' = [response EXCEPT ![i] = _build_response(200, SuccessBody(i))]
    /\ pc' = [pc EXCEPT ![i] = "done"]
    /\ UNCHANGED <<AUDIT_FUNCTION_NAME, frame, s3, table, audit, issued, clock,
                   vparts, vresult, handlerVars>>

(***************************************************************************)
(* get-submission-metadata: lambda_handler.                                *)
(***************************************************************************)
\* A GET /submissions/{id}: the path parameter ("" when there is none) and
\* the claims of the authorizer.
ReadRequest(id, claims) == [id |-> id, claims |-> claims]
Claims(sub, email, groups) == [sub |-> sub, email |-> email, groups |-> groups]

F1 == <<"f", "1">>
FACULTY_EMAIL == "faculty@university.edu"
UNKNOWN_ID == <<"uuid-0">>

\* The reads the invocations are drawn from.
ReadRequestList ==
    << \* 1: no id in the path
       ReadRequest(<<>>, Claims(S1, EMAIL, STUDENTS)),
       \* 2: no subject id in the claims
       ReadRequest(Uuid4(1), [email |-> EMAIL, groups |-> FACULTY]),
       \* 3: student s1
       ReadRequest(Uuid4(1), Claims(S1, EMAIL, STUDENTS)),
       \* 4: student s2
       ReadRequest(Uuid4(1), Claims(S2, EMAIL, STUDENTS)),
       \* 5: a member of the faculty
       ReadRequest(Uuid4(1), Claims(F1, FACULTY_EMAIL, FACULTY)),
       \* 6: a caller in no group
       ReadRequest(Uuid4(1), [sub |-> S1, email |-> EMAIL]),
       \* 7: s1, in Students and in Admin
       ReadRequest(Uuid4(1), Claims(S1, EMAIL, STUDENTS \o <<",">> \o ADMIN)),
       \* 8: student s2, an id no record has
       ReadRequest(UNKNOWN_ID, Claims(S2, EMAIL, STUDENTS)),
       \* 9: no subject id, an id no record has
       ReadRequest(UNKNOWN_ID, [email |-> EMAIL, groups |-> FACULTY]) >>

Reads == DOMAIN ReadRequestList

\* The locals of the reader in invocation i.
ReadOf(i) == ReadRequestList[rframe[i].request]
UserInfo(i) == _extract_user_info(ReadOf(i))

\* identity.get("sourceIp", "unknown") and identity.get("userAgent",
\* "unknown") of a request context without identity.
UNKNOWN == "unknown"

\* Mutant of AccessPayload: the email of the event is the email stored in the
\* record, not the caller's.
AccessPayloadRecordEmail(i) ==
    [event_type |-> "ACCESS",
     user_id |-> UserInfo(i).sub,
     submission_id |-> ReadOf(i).id,
     ip_address |-> UNKNOWN,
     user_agent |-> UNKNOWN,
     action_metadata |-> [email |-> rframe[i].item.email, action |-> "get_metadata"]]

\* The payload _invoke_audit_logger builds for the read of invocation i.
AccessPayload(i) ==
    [event_type |-> "ACCESS",
     user_id |-> UserInfo(i).sub,
     submission_id |-> ReadOf(i).id,
     ip_address |-> UNKNOWN,
     user_agent |-> UNKNOWN,
     action_metadata |-> [email |-> UserInfo(i).email, action |-> "get_metadata"]]

\* table.get_item(Key={"submission_id": submission_id}): the item, NoItem
\* when there is none.
GetItem(items, submission_id) ==
    LET found == {r \in items : r.submission_id = submission_id}
    IN  IF found = {} THEN NoItem ELSE CHOOSE r \in found : TRUE

\* What every step of a reader leaves alone.
readerFrame == <<AUDIT_FUNCTION_NAME, frame, s3, table, issued, clock, audit_table,
                 vparts, vresult, accessVars>>

\* Mutant of ReadInvoke: the caller's identity is looked at after the
\* lookup, not before it.
ReadInvokeLooksUpFirst(i, q) ==
    /\ pc[i] = "idle"
    /\ handler' = [handler EXCEPT ![i] = METADATA]
    /\ rframe' = [rframe EXCEPT ![i] = [request |-> q, item |-> NoItem]]
    /\ IF ReadRequestList[q].id = <<>>
       THEN /\ response' = [response EXCEPT ![i] = _build_response(400,
                                ErrorBody("Missing submission id in request path", <<>>))]
            /\ pc' = [pc EXCEPT ![i] = "done"]
       ELSE /\ response' = [response EXCEPT ![i] = NoResponse]
            /\ pc' = [pc EXCEPT ![i] = "get_item"]
    /\ UNCHANGED <<calls, audit>>
    /\ UNCHANGED readerFrame

\* An invocation of the reader with read q, from its entry to the lookup or
\* to an early return: steps 1 and 2.
ReadInvoke(i, q) ==
    /\ pc[i] = "idle"
    /\ handler' = [handler EXCEPT ![i] = METADATA]
    /\ rframe' = [rframe EXCEPT ![i] = [request |-> q, item |-> NoItem]]
    /\ IF ReadRequestList[q].id = <<>>
       THEN /\ response' = [response EXCEPT ![i] = _build_response(400,
                                ErrorBody("Missing submission id in request path", <<>>))]
            /\ pc' = [pc EXCEPT ![i] = "done"]
       ELSE IF _extract_user_info(ReadRequestList[q]).sub = <<>>
       THEN /\ response' = [response EXCEPT ![i] = _build_response(403,
                                ErrorBody("Unable to determine caller identity", <<>>))]
            /\ pc' = [pc EXCEPT ![i] = "done"]
       ELSE /\ response' = [response EXCEPT ![i] = NoResponse]
            /\ pc' = [pc EXCEPT ![i] = "get_item"]
    /\ UNCHANGED <<calls, audit>>
    /\ UNCHANGED readerFrame

\* Mutant of GetItemOk: the ACCESS notification is dispatched as soon as the
\* record is found, before the access decision, so a refused read leaves one
\* too.
GetItemOkAuditsFirst(i) ==
    /\ pc[i] = "get_item"
    /\ handler[i] = METADATA
    /\ LET item == GetItem(table, ReadOf(i).id)
       IN  /\ rframe' = [rframe EXCEPT ![i].item = item]
           /\ IF item = NoItem
              THEN /\ calls' = [calls EXCEPT ![i] = Append(@, <<"get_item", "ok">>)]
                   /\ response' = [response EXCEPT ![i] = _build_response(404,
                                       ErrorBody("Submission not found", <<>>))]
                   /\ pc' = [pc EXCEPT ![i] = "done"]
                   /\ UNCHANGED audit
              ELSE IF Authorise(UserInfo(i), item).kind = "reject"
              THEN /\ calls' = [calls EXCEPT ![i] =
                                    @ \o <<<<"get_item", "ok">>, <<"invoke", "ok">>>>]
                   /\ audit' = audit \cup {AccessPayload(i)}
                   /\ response' = [response EXCEPT ![i] =
                                       Authorise(UserInfo(i), item).resp]
                   /\ pc' = [pc EXCEPT ![i] = "done"]
              ELSE /\ calls' = [calls EXCEPT ![i] = Append(@, <<"get_item", "ok">>)]
                   /\ UNCHANGED <<response, audit>>
                   /\ pc' = [pc EXCEPT ![i] = "access_invoke"]
    /\ UNCHANGED handler
    /\ UNCHANGED readerFrame

\* Steps 3 and 4, get_item returns: not found, denied, or on to step 5.
GetItemOk(i) ==
    /\ pc[i] = "get_item"
    /\ handler[i] = METADATA
    /\ calls' = [calls EXCEPT ![i] = Append(@, <<"get_item", "ok">>)]
    /\ LET item == GetItem(table, ReadOf(i).id)
       IN  /\ rframe' = [rframe EXCEPT ![i].item = item]
           /\ IF item = NoItem
              THEN /\ response' = [response EXCEPT ![i] = _build_response(404,
                                       ErrorBody("Submission not found", <<>>))]
                   /\ pc' = [pc EXCEPT ![i] = "done"]
              ELSE IF Authorise(UserInfo(i), item).kind = "reject"
              THEN /\ response' = [response EXCEPT ![i] =
                                       Authorise(UserInfo(i), item).resp]
                   /\ pc' = [pc EXCEPT ![i] = "done"]
              ELSE /\ UNCHANGED response
                   /\ pc' = [pc EXCEPT ![i] = "access_invoke"]
    /\ UNCHANGED <<handler, audit>>
    /\ UNCHANGED readerFrame

\* Step 3, get_item raises ClientError.
GetItemClientError(i) ==
    /\ pc[i] = "get_item"
    /\ handler[i] = METADATA
    /\ calls' = [calls EXCEPT ![i] = Append(@, <<"get_item", "error">>)]
    /\ response' = [response EXCEPT ![i] =
           _build_response(500, ErrorBody("Internal server error", <<>>))]
    /\ pc' = [pc EXCEPT ![i] = "done"]
    /\ UNCHANGED <<handler, rframe, audit>>
    /\ UNCHANGED readerFrame

\* Step 3, get_item raises an exception that is not a ClientError (a
\* botocore connection or timeout error): no except clause matches, and the
\* exception leaves the handler.
GetItemRaises(i) ==
    /\ pc[i] = "get_item"
    /\ handler[i] = METADATA
    /\ calls' = [calls EXCEPT ![i] = Append(@, <<"get_item", "raise">>)]
    /\ pc' = [pc EXCEPT ![i] = "raised"]
    /\ UNCHANGED <<handler, rframe, response, audit>>
    /\ UNCHANGED readerFrame

\* Steps 5 and 6, invoke returns.
AccessInvokeOk(i) ==
    /\ pc[i] = "access_invoke"
    /\ calls' = [calls EXCEPT ![i] = Append(@, <<"invoke", "ok">>)]
    /\ audit' = audit \cup {AccessPayload(i)}
    /\ response' = [response EXCEPT ![i] = _build_response(200, Sanitise(rframe[i].item))]
    /\ pc' = [pc EXCEPT ![i] = "done"]
    /\ UNCHANGED <<handler, rframe>>
    /\ UNCHANGED readerFrame

\* Steps 5 and 6, invoke raises ClientError and _invoke_audit_logger
\* swallows it.
AccessInvokeClientError(i) ==
    /\ pc[i] = "access_invoke"
    /\ calls' = [calls EXCEPT ![i] = Append(@, <<"invoke", "error">>)]
    /\ response' = [response EXCEPT ![i] = _build_response(200, Sanitise(rframe[i].item))]
    /\ pc' = [pc EXCEPT ![i] = "done"]
    /\ UNCHANGED <<handler, rframe, audit>>
    /\ UNCHANGED readerFrame

\* Step 5, invoke raises an exception that is not a ClientError: it leaves
\* _invoke_audit_logger and the handler.
AccessInvokeRaises(i) ==
    /\ pc[i] = "access_invoke"
    /\ calls' = [calls EXCEPT ![i] = Append(@, <<"invoke", "raise">>)]
    /\ pc' = [pc EXCEPT ![i] = "raised"]
    /\ UNCHANGED <<handler, rframe, response, audit>>
    /\ UNCHANGED readerFrame

(***************************************************************************)
(* The status reader (get-submission-status).                              *)
(***************************************************************************)
\* The GET /submissions/{id}/status requests the invocations are drawn from,
\* each with its path parameter and the claims of the authorizer, which the
\* handler does not look at.
StatusRequestList ==
    << \* 1: no id in the path
       ReadRequest(<<>>, Claims(S1, EMAIL, STUDENTS)),
       \* 2: student s2, the first identifier handed out
       ReadRequest(Uuid4(1), Claims(S2, EMAIL, STUDENTS)),
       \* 3: a caller without claims, the same identifier
       ReadRequest(Uuid4(1), NoItem),
       \* 4: student s2, an identifier no record has
       ReadRequest(UNKNOWN_ID, Claims(S2, EMAIL, STUDENTS)) >>
StatusReads == DOMAIN StatusRequestList

\* The submission_id of the status read of invocation i.
StatusIdOf(i) == StatusRequestList[rframe[i].request].id

\* The attributes the lookup projects.
PROJECTION == {"submission_id", "status", "upload_timestamp"}

\* result: item.get(k) for the three attributes, None for one the item
\* does not have.
StatusResult(item) == [k \in PROJECTION |-> IF k \in DOMAIN item THEN item[k] ELSE None]

\* An invocation of the status reader with request q: step 1.
StatusInvoke(i, q) ==
    /\ pc[i] = "idle"
    /\ handler' = [handler EXCEPT ![i] = STATUS]
    /\ rframe' = [rframe EXCEPT ![i] = [request |-> q, item |-> NoItem]]
    /\ IF StatusRequestList[q].id = <<>>
       THEN /\ response' = [response EXCEPT ![i] = _build_response(400,
                                ErrorBody("Missing submission id in request path", <<>>))]
            /\ pc' = [pc EXCEPT ![i] = "done"]
       ELSE /\ response' = [response EXCEPT ![i] = NoResponse]
            /\ pc' = [pc EXCEPT ![i] = "status_get_item"]
    /\ UNCHANGED <<calls, audit>>
    /\ UNCHANGED readerFrame

\* Mutant of StatusGetItemOk: the record is shown to the callers the
\* metadata reader would show it to, and the others get its 403.
StatusGetItemOkAuthorised(i) ==
    /\ pc[i] = "status_get_item"
    /\ calls' = [calls EXCEPT ![i] = Append(@, <<"get_item", "ok">>)]
    /\ LET item == GetItem(table, StatusIdOf(i))
           user_info == _extract_user_info(StatusRequestList[rframe[i].request])
       IN  /\ rframe' = [rframe EXCEPT ![i].item = item]
           /\ response' = [response EXCEPT ![i] =
                  IF item = NoItem
                  THEN _build_response(404, ErrorBody("Submission not found", <<>>))
                  ELSE IF Authorise(user_info, item).kind = "reject"
                  THEN Authorise(user_info, item).resp
                  ELSE _build_response(200, StatusResult(item))]
    /\ pc' = [pc EXCEPT ![i] = "done"]
    /\ UNCHANGED <<handler, audit>>
    /\ UNCHANGED readerFrame

\* Steps 2 and 3, get_item returns.
StatusGetItemOk(i) ==
    /\ pc[i] = "status_get_item"
    /\ calls' = [calls EXCEPT ![i] = Append(@, <<"get_item", "ok">>)]
    /\ LET item == GetItem(table, StatusIdOf(i))
       IN  /\ rframe' = [rframe EXCEPT ![i].item = item]
           /\ response' = [response EXCEPT ![i] =
                  IF item = NoItem
                  THEN _build_response(404, ErrorBody("Submission not found", <<>>))
                  ELSE _build_response(200, StatusResult(item))]
    /\ pc' = [pc EXCEPT ![i] = "done"]
    /\ UNCHANGED <<handler, audit>>
    /\ UNCHANGED readerFrame

\* Step 2, get_item raises ClientError.
StatusGetItemClientError(i) ==
    /\ pc[i] = "status_get_item"
    /\ calls' = [calls EXCEPT ![i] = Append(@, <<"get_item", "error">>)]
    /\ response' = [response EXCEPT ![i] =
           _build_response(500, ErrorBody("Internal server error", <<>>))]
    /\ pc' = [pc EXCEPT ![i] = "done"]
    /\ UNCHANGED <<handler, rframe, audit>>
    /\ UNCHANGED readerFrame

\* Step 2, get_item raises an exception that is not a ClientError: it
\* leaves the handler.
StatusGetItemRaises(i) ==
    /\ pc[i] = "status_get_item"
    /\ calls' = [calls EXCEPT ![i] = Append(@, <<"get_item", "raise">>)]
    /\ pc' = [pc EXCEPT ![i] = "raised"]
    /\ UNCHANGED <<handler, rframe, response, audit>>
    /\ UNCHANGED readerFrame

(***************************************************************************)
(* The audit logger (audit-logger).                                        *)
(***************************************************************************)
VALID_EVENT_TYPES == {"UPLOAD", "ACCESS", "DOWNLOAD", "DELETE"}

\* Events that reach the logger from elsewhere than the two handlers above:
\* an unknown event type, no event type, no user, no submission, and a
\* well-formed DELETE without action_metadata.
DirectEvents ==
    { [event_type |-> "LOGIN", user_id |-> S1, submission_id |-> Uuid4(1)],
      [user_id |-> S1, submission_id |-> Uuid4(1)],
      [event_type |-> "ACCESS", submission_id |-> Uuid4(1)],
      [event_type |-> "ACCESS", user_id |-> S1, submission_id |-> <<>>],
      [event_type |-> "DELETE", user_id |-> S1, submission_id |-> Uuid4(1)] }

\* event.get(key, default)
EventGet(event, key, default) == IF key \in DOMAIN event THEN event[key] ELSE default

\* The responses of the logger.
LoggerError(msg, arg) == [status |-> "error", error |-> [msg |-> msg, arg |-> arg]]
Logged(audit_id) == [status |-> "logged", audit_id |-> audit_id]

\* Step 1: the error the validation returns for the event, Pending when it
\* passes.
ValidateEvent(event) ==
    IF EventGet(event, "event_type", "") \notin VALID_EVENT_TYPES
    THEN LoggerError("Invalid event_type", EventGet(event, "event_type", ""))
    ELSE IF EventGet(event, "user_id", <<>>) = <<>>
    THEN LoggerError("Missing required field: user_id", <<>>)
    ELSE IF EventGet(event, "submission_id", <<>>) = <<>>
    THEN LoggerError("Missing required field: submission_id", <<>>)
    ELSE Pending

\* Step 2: audit_item.
AuditItem(event, audit_id, timestamp) ==
    [audit_id |-> audit_id,
     event_type |-> event.event_type,
     user_id |-> event.user_id,
     submission_id |-> event.submission_id,
     timestamp |-> timestamp,
     ip_address |-> EventGet(event, "ip_address", UNKNOWN),
     user_agent |-> EventGet(event, "user_agent", UNKNOWN),
     action_metadata |-> EventGet(event, "action_metadata", NoItem)]

\* What every step of the logger leaves alone.
loggerFrame == <<AUDIT_FUNCTION_NAME, frame, s3, table, audit, vparts, vresult, accessVars>>

\* Steps 1 and 2 of the logger on an event.
LoggerHandle(i, event) ==
    /\ pc[i] = "idle"
    /\ handler' = [handler EXCEPT ![i] = AUDIT_LOGGER]
    /\ IF ValidateEvent(event) # Pending
       THEN /\ rframe' = [rframe EXCEPT ![i] = [request |-> event, item |-> NoItem]]
            /\ response' = [response EXCEPT ![i] = ValidateEvent(event)]
            /\ pc' = [pc EXCEPT ![i] = "done"]
            /\ UNCHANGED <<issued, clock>>
       ELSE /\ rframe' = [rframe EXCEPT ![i] =
                   [request |-> event,
                    item |-> AuditItem(event, Uuid4(issued + 1), clock + 1)]]
            /\ issued' = issued + 1
            /\ clock' = clock + 1
            /\ response' = [response EXCEPT ![i] = NoResponse]
            /\ pc' = [pc EXCEPT ![i] = "audit_put_item"]
    /\ UNCHANGED <<calls, audit_table>>
    /\ UNCHANGED loggerFrame

\* An invocation of the logger with an event that a handler dispatched (the
\* asynchronous invocation delivers it, possibly more than once) or that
\* came from elsewhere.
LoggerInvoke(i) == \E event \in audit \cup DirectEvents : LoggerHandle(i, event)

\* Mutant of LoggerPutOk: the item is put in the submissions table, where
\* submission_id is the key.
LoggerPutOkInSubmissions(i) ==
    /\ pc[i] = "audit_put_item"
    /\ calls' = [calls EXCEPT ![i] = Append(@, <<"audit_put_item", "ok">>)]
    /\ table' = PutItem(table, rframe[i].item)
    /\ response' = [response EXCEPT ![i] = Logged(rframe[i].item.audit_id)]
    /\ pc' = [pc EXCEPT ![i] = "done"]
    /\ UNCHANGED <<handler, rframe, issued, clock, audit_table>>
    /\ UNCHANGED <<AUDIT_FUNCTION_NAME, frame, s3, audit, vparts, vresult, accessVars>>

\* Step 3, put_item returns.
LoggerPutOk(i) ==
    /\ pc[i] = "audit_put_item"
    /\ calls' = [calls EXCEPT ![i] = Append(@, <<"audit_put_item", "ok">>)]
    /\ audit_table' = audit_table \cup {rframe[i].item}
    /\ response' = [response EXCEPT ![i] = Logged(rframe[i].item.audit_id)]
    /\ pc' = [pc EXCEPT ![i] = "done"]
    /\ UNCHANGED <<handler, rframe, issued, clock>>
    /\ UNCHANGED loggerFrame

\* Step 3, put_item raises ClientError after the retries.
LoggerPutClientError(i) ==
    /\ pc[i] = "audit_put_item"
    /\ calls' = [calls EXCEPT ![i] = Append(@, <<"audit_put_item", "error">>)]
    /\ response' = [response EXCEPT ![i] =
           LoggerError("Failed to write audit event to DynamoDB", <<>>)]
    /\ pc' = [pc EXCEPT ![i] = "done"]
    /\ UNCHANGED <<handler, rframe, issued, clock, audit_table>>
    /\ UNCHANGED loggerFrame

\* Step 3, put_item raises an exception that is not a ClientError: it
\* leaves the handler.
LoggerPutRaises(i) ==
    /\ pc[i] = "audit_put_item"
    /\ calls' = [calls EXCEPT ![i] = Append(@, <<"audit_put_item", "raise">>)]
    /\ pc' = [pc EXCEPT ![i] = "raised"]
    /\ UNCHANGED <<handler, rframe, response, issued, clock, audit_table>>
    /\ UNCHANGED loggerFrame

Next ==
    \/ \E i \in Invocations, k \in Events : Invoke(i, k)
    \/ \E i \in Invocations : S3PutOk(i)
    \/ \E i \in Invocations : S3PutFail(i)
    \/ \E i \in Invocations : DynamoPutOk(i)
    \/ \E i \in Invocations : DynamoPutFail(i)
    \/ \E i \in Invocations : AuditSkipped(i)
    \/ \E i \in Invocations : AuditInvokeOk(i)
    \/ \E i \in Invocations : AuditInvokeFail(i)
    \/ \E i \in Invocations, q \in Reads : ReadInvoke(i, q)
    \/ \E i \in Invocations : GetItemOk(i)
    \/ \E i \in Invocations : GetItemClientError(i)
    \/ \E i \in Invocations : GetItemRaises(i)
    \/ \E i \in Invocations : AccessInvokeOk(i)
    \/ \E i \in Invocations : AccessInvokeClientError(i)
    \/ \E i \in Invocations : AccessInvokeRaises(i)
    \/ \E i \in Invocations, q \in StatusReads : StatusInvoke(i, q)
    \/ \E i \in Invocations : StatusGetItemOk(i)
    \/ \E i \in Invocations : StatusGetItemClientError(i)
    \/ \E i \in Invocations : StatusGetItemRaises(i)
    \/ \E i \in Invocations : LoggerInvoke(i)
    \/ \E i \in Invocations : LoggerPutOk(i)
    \/ \E i \in Invocations : LoggerPutClientError(i)
    \/ \E i \in Invocations : LoggerPutRaises(i)

Spec == Init /\ [][Next]_vars

(***************************************************************************)
(* The validation alone, on every mapping of decoded parts built from      *)
(* small sets of filenames, contents and identifier values.                *)
(***************************************************************************)
\* A part that the mapping does not hold.
Absent == [value |-> <<>>, filename |-> <<"<Absent>">>]

FileNames ==
    { <<>>,
      <<"a", ".", "p", "d", "f">>,
      <<"a", ".", "P", "D", "F">>,
      <<"a", ".", "P", "y">>,
      <<"a", ".", "e", "x", "e">>,
      <<"n", "o", "e", "x", "t">>,
      <<"a", ".", "c", ".", "e", "x", "e">>,
      <<"a", ".", "e", "x", "e", ".", "C">>,
      <<"a", ".">> }

FileContents == {FileOfSize(n) : n \in 0..(MAX_FILE_SIZE + 1)}

FileChoices ==
    {Absent} \cup [value : FileContents, filename : FileNames \cup {None}]

FieldChoices(values) == {Absent} \cup [value : values, filename : {None}]

StudentValues ==
    {<<>>, <<" ">>, S1, <<" ">> \o S1 \o <<"\t">>, <<"0xFF">>, <<"0xC3", "0xA9">>}
CourseValues == {<<>>, CS101, <<"0xFF">>}
SectionValues == {<<"\n">>, SECTION_A, <<"0xC3">>}

\* The dict with the parts that are not Absent.
PartsDict(file, student, course, section) ==
    LET all == [n \in {FILE, STUDENT_ID, COURSE_ID, SECTION_ID} |->
                    IF n = FILE THEN file
                    ELSE IF n = STUDENT_ID THEN student
                    ELSE IF n = COURSE_ID THEN course
                    ELSE section]
    IN  [n \in {m \in DOMAIN all : all[m] # Absent} |-> all[n]]

PartsInputs ==
    {PartsDict(f, s, c, x) : f \in FileChoices, s \in FieldChoices(StudentValues),
                             c \in FieldChoices(CourseValues),
                             x \in FieldChoices(SectionValues)}

InitValidate ==
    /\ AUDIT_FUNCTION_NAME = ""
    /\ pc = [i \in Invocations |-> "idle"]
    /\ frame = [i \in Invocations |-> NoFrame]
    /\ calls = [i \in Invocations |-> <<>>]
    /\ response = [i \in Invocations |-> NoResponse]
    /\ s3 = {}
    /\ table = {}
    /\ audit = {}
    /\ issued = 0
    /\ clock = 0
    /\ vparts \in PartsInputs
    /\ vresult = Pending
    /\ handler = [i \in Invocations |-> NoHandler]
    /\ rframe = [i \in Invocations |-> NoRead]
    /\ audit_table = {}
    /\ ainput = NoAccess
    /\ aresult = Pending
    /\ pinput = NoParse
    /\ presult = Pending

\* Steps 4 to 6 applied to the parts.
ValidateParts ==
    /\ vresult = Pending
    /\ vresult' = Validate(vparts)
    /\ UNCHANGED <<AUDIT_FUNCTION_NAME, pc, frame, calls, response, s3, table, audit,
                   issued, clock, vparts, handlerVars>>

NextValidate == ValidateParts

SpecValidate == InitValidate /\ [][NextValidate]_vars

(***************************************************************************)
(* The access decision alone, over callers and owners.                     *)
(***************************************************************************)
\* Values of the cognito:groups claim.
GroupClaims ==
    { <<>>,
      <<"F", "a", "c", "u", "l", "t", "y">>,
      <<"A", "d", "m", "i", "n">>,
      <<"S", "t", "u", "d", "e", "n", "t", "s">>,
      <<"S", "t", "u", "d", "e", "n", "t", "s", ",", "F", "a", "c", "u", "l", "t", "y">>,
      <<"A", "d", "m", "i", "n", " ", "S", "t", "u", "d", "e", "n", "t", "s">>,
      <<"f", "a", "c", "u", "l", "t", "y">>,
      <<"S", "T", "U", "D", "E", "N", "T", "S">>,
      <<"S", "t", "u", "d", "e", "n", "t">>,
      <<"F", "a", "c", "u", "l", "t", "y", "x">>,
      <<"x", "A", "d", "m", "i", "n">>,
      <<" ", "S", "t", "u", "d", "e", "n", "t", "s", " ">>,
      <<"S", "t", "u", "d", "e", "n", "t", "s", ",">>,
      <<",">>,
      <<"G", "u", "e", "s", "t", "s">>,
      <<"S", "t", "u", "d", "e", "n", "t", "s", ";", "A", "d", "m", "i", "n">>,
      <<"F", "a", "c", "u", "l", "t", "y", "\t", "G", "u", "e", "s", "t", "s">>,
      <<"G", "u", "e", "s", "t", "s", ",", "S", "t", "u", "d", "e", "n", "t", "s">>,
      <<"S", "t", "u", " ", "d", "e", "n", "t", "s">> }

\* A record as the intake handler writes it for owner, uploaded by the
\* caller user_id.
RecordOf(submission_id, owner, user_id) ==
    ItemFor(Validated(<<"x">>, <<"a", ".", "c">>, owner, CS101, SECTION_A, <<".", "c">>, 1),
            submission_id, 1,
            _make_apigw_event("POST", MultipartContentType, <<>>, user_id, EMAIL))

AccessInputs ==
    [user_info : [sub : {S1, S2}, email : {EMAIL}, groups : GroupClaims],
     item : {RecordOf(Uuid4(1), owner, owner) : owner \in {S1, S2}}]

InitAccess ==
    /\ AUDIT_FUNCTION_NAME = ""
    /\ pc = [i \in Invocations |-> "idle"]
    /\ frame = [i \in Invocations |-> NoFrame]
    /\ calls = [i \in Invocations |-> <<>>]
    /\ response = [i \in Invocations |-> NoResponse]
    /\ s3 = {}
    /\ table = {}
    /\ audit = {}
    /\ issued = 0
    /\ clock = 0
    /\ vparts = EmptyDict
    /\ vresult = Pending
    /\ handler = [i \in Invocations |-> NoHandler]
    /\ rframe = [i \in Invocations |-> NoRead]
    /\ audit_table = {}
    /\ ainput \in AccessInputs
    /\ aresult = Pending
    /\ pinput = NoParse
    /\ presult = Pending

\* Step 4 of the reader applied to the caller and the item.
AuthoriseCaller ==
    /\ aresult = Pending
    /\ aresult' = Authorise(ainput.user_info, ainput.item)
    /\ UNCHANGED <<AUDIT_FUNCTION_NAME, pc, frame, calls, response, s3, table, audit,
                   issued, clock, vparts, vresult, handler, rframe, audit_table, ainput,
                   pinput, presult>>

NextAccess == AuthoriseCaller

SpecAccess == InitAccess /\ [][NextAccess]_vars

(***************************************************************************)
(* The metadata reader alone, over stores that earlier uploads and the     *)
(* collaborators that annotate records have filled.                        *)
(***************************************************************************)
\* The object the intake handler wrote for the record RecordOf(submission_id,
\* owner, owner).
ObjectOf(submission_id, owner) ==
    [Key |-> S3Key(owner, submission_id, <<"a", ".", "c">>),
     Body |-> <<"x">>,
     Metadata |-> [submission_id |-> submission_id,
                   student_id |-> owner,
                   sha256 |-> _sha256(<<"x">>)]]

\* The internal-only attributes a stored item can carry.
InternalAttributes == [_version |-> 3, _ttl |-> 0, _internal_flags |-> "flagged"]

\* The stores before the reads: empty, one record of s1, and the same
\* record with the internal attributes.
SeededStores ==
    { [s3 |-> {}, table |-> {}],
      [s3 |-> {ObjectOf(Uuid4(1), S1)}, table |-> {RecordOf(Uuid4(1), S1, S1)}],
      [s3 |-> {ObjectOf(Uuid4(1), S1)},
       table |-> {RecordOf(Uuid4(1), S1, S1) @@ InternalAttributes}] }

InitRead ==
    /\ AUDIT_FUNCTION_NAME = "audit-logger"
    /\ pc = [i \in Invocations |-> "idle"]
    /\ frame = [i \in Invocations |-> NoFrame]
    /\ calls = [i \in Invocations |-> <<>>]
    /\ response = [i \in Invocations |-> NoResponse]
    /\ \E stores \in SeededStores : s3 = stores.s3 /\ table = stores.table
    /\ audit = {}
    /\ issued = 1
    /\ clock = 1
    /\ vparts = EmptyDict
    /\ vresult = Pending
    /\ handler = [i \in Invocations |-> NoHandler]
    /\ rframe = [i \in Invocations |-> NoRead]
    /\ audit_table = {}
    /\ ainput = NoAccess
    /\ aresult = Pending
    /\ pinput = NoParse
    /\ presult = Pending

NextRead ==
    \/ \E i \in Invocations, q \in Reads : ReadInvoke(i, q)
    \/ \E i \in Invocations : GetItemOk(i)
    \/ \E i \in Invocations : GetItemClientError(i)
    \/ \E i \in Invocations : GetItemRaises(i)
    \/ \E i \in Invocations : AccessInvokeOk(i)
    \/ \E i \in Invocations : AccessInvokeClientError(i)
    \/ \E i \in Invocations : AccessInvokeRaises(i)

SpecRead == InitRead /\ [][NextRead]_vars

(***************************************************************************)
(* Properties of the intake pipeline.                                      *)
(***************************************************************************)
\* Invocation i made the external call op and it ended with outcome.
Called(i, op, outcome) == \E n \in 1..Len(calls[i]) : calls[i][n] = <<op, outcome>>

\* Invocation i made the external call op.
Attempted(i, op) == \E n \in 1..Len(calls[i]) : calls[i][n][1] = op

RecordsOf(id) == {r \in table : r.submission_id = id}
UploadAuditsOf(id) == {a \in audit : a.event_type = "UPLOAD" /\ a.submission_id = id}

\* Invocation i returned the success response of an upload.
Succeeded(i) ==
    /\ handler[i] = INTAKE
    /\ pc[i] = "done"
    /\ response[i].statusCode = 200
    /\ "submission_id" \in DOMAIN response[i].body

\* The form invocation i was sent.
SentOf(i) == RequestList[frame[i].event].sent

\* The value of the field called name in a form that has one.
FieldSent(form, name) ==
    LET n == CHOOSE n \in 1..Len(form.fields) :
                 /\ form.fields[n][1] = name
                 /\ \A m \in (n + 1)..Len(form.fields) : form.fields[m][1] # name
    IN  form.fields[n][2]

\* C1: when put_object fails for a request that passed validation, the
\* invocation returns 500, no metadata record is written for the request
\* (put_item is not even attempted) and no UPLOAD audit notification is
\* dispatched.
C1_BlobFailureAborts ==
    \A i \in Invocations :
        Called(i, "put_object", "error") =>
            /\ pc[i] = "done"
            /\ response[i].statusCode = 500
            /\ ~Attempted(i, "put_item")
            /\ ~Attempted(i, "invoke")
            /\ RecordsOf(frame[i].submission_id) = {}
            /\ UploadAuditsOf(frame[i].submission_id) = {}

\* C1 witness: an invocation whose blob write failed has returned while the
\* table holds the record of another upload.
C1_Witness ==
    \E i \in Invocations :
        Called(i, "put_object", "error") /\ pc[i] = "done" /\ table # {}

\* C2: in every reachable state, whatever the interleaving of the
\* invocations and whichever calls fail, each record of the metadata store
\* has a file_path whose blob is in the blob store.
C2_NoOrphanMetadata ==
    \A r \in table : \E o \in s3 : r.file_path = S3_SCHEME \o RAW_BUCKET \o <<"/">> \o o.Key

\* C2 witness: one invocation has written its record while another one has
\* failed at the blob write.
C2_Witness ==
    \E i, j \in Invocations :
        /\ i # j
        /\ Called(i, "put_item", "ok")
        /\ Called(j, "put_object", "error")
        /\ table # {}

\* C3: put_item is attempted only after put_object succeeded; when put_item
\* fails the invocation returns 500, the blob it wrote is still in the blob
\* store, and no UPLOAD audit notification is dispatched.
C3_MetadataFailureKeepsBlob ==
    \A i \in Invocations :
        /\ Attempted(i, "put_item") => calls[i][1] = <<"put_object", "ok">>
        /\ Called(i, "put_item", "error") =>
               /\ pc[i] = "done"
               /\ response[i].statusCode = 500
               /\ \E o \in s3 : o.Key = KeyOf(i) /\ o.Body = V(i).file_content
               /\ ~Attempted(i, "invoke")
               /\ UploadAuditsOf(frame[i].submission_id) = {}

\* C3 witness: an invocation whose metadata write failed has returned.
C3_Witness ==
    \E i \in Invocations : Called(i, "put_item", "error") /\ pc[i] = "done"

\* C4: once both writes succeeded the response is the 200 success response
\* with the same body whether the audit dispatch succeeds, fails or is
\* skipped, and both stored artefacts remain.
C4_AuditBestEffort ==
    \A i \in Invocations :
        pc[i] = "done" /\ Called(i, "put_item", "ok") =>
            /\ response[i].statusCode = 200
            /\ response[i].body =
                   [message |-> "File uploaded successfully",
                    submission_id |-> frame[i].submission_id,
                    file_name |-> V(i).original_filename,
                    file_size |-> Len(V(i).file_content),
                    sha256_hash |-> _sha256(V(i).file_content),
                    upload_timestamp |-> frame[i].upload_timestamp,
                    status |-> "uploaded"]
            /\ \E o \in s3 : o.Key = KeyOf(i) /\ o.Body = V(i).file_content
            /\ RecordsOf(frame[i].submission_id) # {}

\* C4 witness: an invocation whose audit dispatch failed has returned.
C4_Witness ==
    \E i \in Invocations : Called(i, "invoke", "error") /\ pc[i] = "done"

\* C5: whenever the handler has returned 200 with submission_id I, the
\* metadata store holds a record keyed I with the file_name, file_size,
\* sha256_hash and upload_timestamp of the response body and status
\* "uploaded", and both writes of the invocation succeeded; the only other
\* 200 is the answer to the CORS preflight.
C5_SuccessMeansStored ==
    \A i \in Invocations :
        /\ Succeeded(i) =>
               /\ Called(i, "put_object", "ok")
               /\ Called(i, "put_item", "ok")
               /\ \E r \in table :
                      /\ r.submission_id = response[i].body.submission_id
                      /\ r.file_name = response[i].body.file_name
                      /\ r.file_size = response[i].body.file_size
                      /\ r.sha256_hash = response[i].body.sha256_hash
                      /\ r.upload_timestamp = response[i].body.upload_timestamp
                      /\ r.status = "uploaded"
        /\ handler[i] = INTAKE /\ pc[i] = "done" /\ response[i].statusCode = 200
               /\ ~Succeeded(i) =>
               EventOf(i).httpMethod = "OPTIONS"

\* C5 witness: two uploads have returned 200.
C5_Witness ==
    \E i, j \in Invocations : i # j /\ Succeeded(i) /\ Succeeded(j)

\* C6: after a successful upload with returned identifier I the blob store
\* holds, at submissions/<trimmed student_id>/<I>/<filename as sent>, an
\* object whose bytes are the content of the file part, and the file_path of
\* the record names that key.
C6_BlobAtConventionalKey ==
    \A i \in Invocations :
        Succeeded(i) =>
            LET I == response[i].body.submission_id
                key == SUBMISSIONS_PREFIX \o Strip(FieldSent(SentOf(i), STUDENT_ID))
                           \o <<"/">> \o I \o <<"/">> \o SentOf(i).file_name
            IN  /\ \E o \in s3 : o.Key = key /\ o.Body = SentOf(i).file_content
                /\ RecordsOf(I) # {}
                /\ \A r \in RecordsOf(I) :
                       r.file_path = S3_SCHEME \o RAW_BUCKET \o <<"/">> \o key

\* C6 witness: the upload with a padded student_id and an upper-case
\* extension has succeeded.
C6_Witness ==
    \E i \in Invocations :
        /\ Succeeded(i)
        /\ FieldSent(SentOf(i), STUDENT_ID) # Strip(FieldSent(SentOf(i), STUDENT_ID))
        /\ SentOf(i).file_name # Lower(SentOf(i).file_name)

(***************************************************************************)
(* Properties of the validation, stated on what the client sent.           *)
(***************************************************************************)
\* The bytes are blanks only, so that nothing is left after trimming.
Blank(value) == \A n \in 1..Len(value) : value[n] \in Whitespace

\* The extension as the specification describes it: the substring from the
\* last '.', lower-cased, empty when the name has no '.'.
LastDotExtension(filename) ==
    LET dots == {n \in 1..Len(filename) : filename[n] = "."}
    IN  IF dots = {} THEN <<>>
        ELSE LET last == CHOOSE n \in dots : \A m \in dots : m <= n
             IN  Lower(SubSeq(filename, last, Len(filename)))

\* The five checks of the validation, in their fixed order, on the parts.
FileMissing(parts) == FILE \notin DOMAIN parts \/ parts[FILE].filename = None
FieldMissing(parts) == \E k \in 1..3 : REQUIRED_FIELDS[k] \notin DOMAIN parts
FirstMissingField(parts) ==
    REQUIRED_FIELDS[CHOOSE k \in 1..3 :
                        /\ REQUIRED_FIELDS[k] \notin DOMAIN parts
                        /\ \A j \in 1..(k - 1) : REQUIRED_FIELDS[j] \in DOMAIN parts]
IdentifierEmpty(parts) == \E k \in 1..3 : Blank(parts[REQUIRED_FIELDS[k]].value)
ExtensionDisallowed(parts) == LastDotExtension(parts[FILE].filename) \notin ALLOWED_EXTENSIONS
Oversize(parts) == Len(parts[FILE].value) > MAX_FILE_SIZE

\* The status and the kind of rejection the first violated check calls for;
\* "accept" when no check is violated.
FirstViolation(parts) ==
    IF FileMissing(parts) THEN <<400, "MissingField", FILE>>
    ELSE IF FieldMissing(parts) THEN <<400, "MissingField", FirstMissingField(parts)>>
    ELSE IF IdentifierEmpty(parts) THEN <<400, "EmptyIdentifier", <<>>>>
    ELSE IF ExtensionDisallowed(parts)
    THEN <<400, "DisallowedExtension", LastDotExtension(parts[FILE].filename)>>
    ELSE IF Oversize(parts) THEN <<413, "PayloadTooLarge", DecStr(Len(parts[FILE].value))>>
    ELSE <<200, "accept", <<>>>>

\* The same triple for the result the handler produced.
Reported(result) ==
    IF result.kind = "ok" THEN <<200, "accept", <<>>>>
    ELSE IF result.kind = "raise" THEN <<500, "InternalError", <<>>>>
    ELSE LET error == result.resp.body.error
         IN  <<result.resp.statusCode,
               IF error.msg = "Missing required field: " THEN "MissingField"
               ELSE IF error.msg = "student_id, course_id, and section_id must not be empty"
               THEN "EmptyIdentifier"
               ELSE IF error.msg = "Invalid file type" THEN "DisallowedExtension"
               ELSE IF error.msg = "File too large" THEN "PayloadTooLarge"
               ELSE "other",
               error.arg>>

\* Checks 1 to 3 pass and the identifiers are text.
IdentifiersPass(parts) ==
    /\ ~FileMissing(parts)
    /\ ~FieldMissing(parts)
    /\ ~IdentifierEmpty(parts)
    /\ \A k \in 1..3 : Utf8Valid(parts[REQUIRED_FIELDS[k]].value)

\* The form of a POST has one of the defects the validation and the decoder
\* turn away.
ListedDefect(request) ==
    /\ request.event.httpMethod = "POST"
    /\ \/ request.event.body = <<>>
       \/ ~Contains(request.event.content_type, MULTIPART)
       \/ ~Contains(request.event.content_type, BOUNDARY_KEY)
       \/ request.sent.file_name = None
       \/ \E k \in 1..3 : \A n \in 1..Len(request.sent.fields) :
              request.sent.fields[n][1] # REQUIRED_FIELDS[k]
       \/ \E n \in 1..Len(request.sent.fields) : Blank(request.sent.fields[n][2])
       \/ LastDotExtension(request.sent.file_name) \notin ALLOWED_EXTENSIONS
       \/ Len(request.sent.file_content) > MAX_FILE_SIZE

\* C7: every request with one of the listed defects (empty body, no
\* multipart Content-Type, no boundary, missing file or field, empty
\* identifier, disallowed extension, oversize file) returns at once with
\* status 400 or 413, leaves the blob store, the metadata store and the audit
\* sink unchanged, and gets no submission identifier.
C7_RejectionsAreClientErrors ==
    [][\A i \in Invocations :
           pc[i] = "idle" /\ handler'[i] = INTAKE
           /\ ListedDefect(RequestList[frame'[i].event]) =>
               /\ pc'[i] = "done"
               /\ response'[i].statusCode \in {400, 413}
               /\ s3' = s3 /\ table' = table /\ audit' = audit
               /\ issued' = issued
               /\ frame'[i].submission_id = NoId]_vars

\* C8: whenever at least one of the five checks is violated, the validation
\* reports the first violated check of the fixed order.
C8_FirstViolatedCheckReported ==
    vresult # Pending /\ FirstViolation(vparts)[2] # "accept" =>
        Reported(vresult) = FirstViolation(vparts)

\* C9: for parts that pass every other check, a file longer than
\* MAX_FILE_SIZE is rejected with 413, a file of exactly MAX_FILE_SIZE bytes
\* is accepted, and a file of MAX_FILE_SIZE + 1 bytes is rejected with 413.
C9_SizeCeiling ==
    vresult # Pending /\ IdentifiersPass(vparts) /\ ~ExtensionDisallowed(vparts) =>
        LET n == Len(vparts[FILE].value)
        IN  /\ n > MAX_FILE_SIZE => Reported(vresult)[1] = 413
            /\ n = MAX_FILE_SIZE => vresult.kind = "ok" /\ vresult.file_size = n
            /\ n = MAX_FILE_SIZE + 1 =>
                   Reported(vresult) = <<413, "PayloadTooLarge", DecStr(n)>>

\* C9 witness: a file of exactly MAX_FILE_SIZE bytes has been accepted.
C9_Witness ==
    /\ vresult # Pending
    /\ vresult.kind = "ok"
    /\ Len(vparts[FILE].value) = MAX_FILE_SIZE

\* C10: for parts that pass checks 1 to 3, a filename whose lower-cased
\* last-dot extension is not allow-listed is rejected with 400 naming that
\* extension, a filename whose extension is allow-listed in any letter-case
\* is not rejected for its extension, and the file_type of the record of an
\* accepted upload is the lower-cased extension.
C10_ExtensionCaseInsensitive ==
    vresult # Pending /\ IdentifiersPass(vparts) =>
        LET ext == LastDotExtension(vparts[FILE].filename)
        IN  /\ ext \notin ALLOWED_EXTENSIONS =>
                   Reported(vresult) = <<400, "DisallowedExtension", ext>>
            /\ ext \in ALLOWED_EXTENSIONS =>
                   /\ Reported(vresult)[2] \in {"accept", "PayloadTooLarge"}
                   /\ Oversize(vparts) \/ vresult.kind = "ok"
            /\ vresult.kind = "ok" =>
                   ItemFor(vresult, Uuid4(1), 1, EventList[12]).file_type = ext

\* C10 witness: a file whose allow-listed extension is written in upper case
\* has been accepted.
C10_Witness ==
    /\ vresult # Pending
    /\ vresult.kind = "ok"
    /\ vparts[FILE].filename # Lower(vparts[FILE].filename)

(***************************************************************************)
(* The decoder alone, on bodies built from sequences of segments, and the  *)
(* validation of what it returns.                                          *)
(***************************************************************************)
\* A segment as a client writes it: the name and the filename parameter of
\* its header (None for a parameter that is not there) and its content.
Segment(name, filename, value) == [name |-> name, filename |-> filename, value |-> value]

\* "Content-Disposition: form-data", the header of a segment without a name
\* parameter, and '; filename="'.
DISPOSITION_BARE == SubSeq(DISPOSITION, 1, Len(DISPOSITION) - 8)
FILENAME_ONLY == SubSeq(FILENAME_PARAM, 2, Len(FILENAME_PARAM))

\* A segment whose header has no name parameter.
NamelessPart(file_name, value) ==
    DASHES \o BOUNDARY \o CRLF \o DISPOSITION_BARE
        \o (IF file_name = None THEN <<>> ELSE FILENAME_ONLY \o file_name \o <<"\"">>)
        \o CRLF \o CRLF \o value \o CRLF

\* The bytes of a segment.
SegmentBytes(seg) ==
    IF seg.name = None THEN NamelessPart(seg.filename, seg.value)
    ELSE IF seg.filename = None THEN FieldPart(seg.name, seg.value)
    ELSE FilePart(seg.name, seg.filename, seg.value)

\* The body of a sequence of segments: the segments in order, then the
\* closing delimiter.
RECURSIVE BodyOf(_)
BodyOf(segments) ==
    IF segments = <<>> THEN DASHES \o BOUNDARY \o DASHES \o CRLF
    ELSE SegmentBytes(Head(segments)) \o BodyOf(Tail(segments))

\* The most segments of a body drawn from SegmentChoices.
MaxSegments == 2

FIELD_A == <<"a">>
FIELD_B == <<"b">>
F_C == <<"f", ".", "c">>

\* The segments bodies are built from: fields with a value that is plain,
\* empty or ends in CRLF; file parts with a filename, with filename="" and
\* without the parameter; segments without a name parameter; a field name
\* used again with another value and with a filename.
SegmentChoices ==
    { Segment(FIELD_A, None, <<"x">>),
      Segment(FIELD_A, None, <<>>),
      Segment(FIELD_A, None, <<"y">> \o CRLF),
      Segment(FIELD_A, F_C, <<"z">>),
      Segment(FIELD_B, <<"g">>, CRLF),
      Segment(FILE, F_C, <<"x">>),
      Segment(FILE, <<>>, <<"x">>),
      Segment(FILE, None, <<"x">>),
      Segment(None, None, <<"x">>),
      Segment(None, F_C, <<"x">>),
      Segment(None, <<>>, <<"x">>) }

\* An upload form: the three identifiers and a file part.
UploadSegments(file_name) ==
    << Segment(STUDENT_ID, None, S1), Segment(COURSE_ID, None, CS101),
       Segment(SECTION_ID, None, SECTION_A), Segment(FILE, file_name, <<"x">>) >>

\* The Content-Type headers: the boundary bare, the boundary in quotes, and
\* no boundary parameter.
ContentTypes ==
    { MultipartContentType,
      MULTIPART \o <<";", " ">> \o BOUNDARY_KEY \o <<"\"">> \o BOUNDARY \o <<"\"">>,
      MULTIPART }

SegmentSequences ==
    UNION {[1..n -> SegmentChoices] : n \in 0..MaxSegments}
        \cup {UploadSegments(f) : f \in {None, <<>>, F_C}}
        \cup {SubSeq(UploadSegments(F_C), 1, 3)}

ParseInputs ==
    {[content_type |-> c, segments |-> segs, body |-> BodyOf(segs)] :
        c \in ContentTypes, segs \in SegmentSequences}

InitParse ==
    /\ AUDIT_FUNCTION_NAME = ""
    /\ pc = [i \in Invocations |-> "idle"]
    /\ frame = [i \in Invocations |-> NoFrame]
    /\ calls = [i \in Invocations |-> <<>>]
    /\ response = [i \in Invocations |-> NoResponse]
    /\ s3 = {}
    /\ table = {}
    /\ audit = {}
    /\ issued = 0
    /\ clock = 0
    /\ vparts = EmptyDict
    /\ vresult = Pending
    /\ handler = [i \in Invocations |-> NoHandler]
    /\ rframe = [i \in Invocations |-> NoRead]
    /\ audit_table = {}
    /\ ainput = NoAccess
    /\ aresult = Pending
    /\ pinput \in ParseInputs
    /\ presult = Pending

\* Steps 3 to 6 of lambda_handler on the body: the mapping the decoder
\* returns, and the outcome of the handler up to the end of the validation.
ParseBody ==
    /\ presult = Pending
    /\ presult' =
           [parsed |-> _parse_multipart(pinput.content_type, pinput.body),
            outcome |-> DecodeAndValidate(
                            _make_apigw_event("POST", pinput.content_type, pinput.body,
                                              S1, EMAIL))]
    /\ UNCHANGED <<AUDIT_FUNCTION_NAME, pc, frame, calls, response, s3, table, audit,
                   issued, clock, vparts, vresult, handler, rframe, audit_table, ainput,
                   aresult, pinput>>

NextParse == ParseBody

SpecParse == InitParse /\ [][NextParse]_vars

(***************************************************************************)
(* Properties of the decoder.                                              *)
(***************************************************************************)
\* The body of pinput has been decoded, and its Content-Type header named a
\* boundary.
Decoded == presult # Pending /\ presult.parsed.ok

\* The segments of the body under decoding, by position.
SegmentAt(n) == pinput.segments[n]
Positions == DOMAIN pinput.segments

\* The names the segments of the body give.
NamesSent == {SegmentAt(n).name : n \in Positions} \ {None}

\* The last segment of the body with the name parameter name.
LastNamed(name) ==
    SegmentAt(CHOOSE n \in Positions :
                  /\ SegmentAt(n).name = name
                  /\ \A m \in Positions : SegmentAt(m).name = name => m <= n)

\* C21: for a body whose segments all have a name parameter, the mapping
\* has exactly the names of the segments as its keys, one entry for each, and
\* the entry of a name has the content and the filename of the last segment
\* with that name.
C21_LastWriteWins ==
    Decoded /\ None \notin {SegmentAt(n).name : n \in Positions} =>
        /\ DOMAIN presult.parsed.parts = NamesSent
        /\ \A name \in NamesSent :
               /\ presult.parsed.parts[name].value = LastNamed(name).value
               /\ presult.parsed.parts[name].filename = LastNamed(name).filename

\* C21 witness: a body with two segments of the same name, with different
\* contents and filenames, has been decoded.
C21_Witness ==
    /\ Decoded
    /\ \E n, m \in Positions :
           /\ n < m
           /\ SegmentAt(n).name = SegmentAt(m).name
           /\ SegmentAt(n).name # None
           /\ SegmentAt(n).value # SegmentAt(m).value
           /\ SegmentAt(n).filename # SegmentAt(m).filename

\* C22: a segment without a name parameter adds no entry to the mapping,
\* whatever else its header has, so the keys of the mapping are names of
\* segments; and the decoding fails exactly when the Content-Type header has
\* no boundary.
C22_NamelessSegmentsSkipped ==
    presult # Pending =>
        /\ presult.parsed.ok <=> Contains(pinput.content_type, BOUNDARY_KEY)
        /\ DOMAIN presult.parsed.parts \subseteq NamesSent

\* C23: a body whose segments have names that differ from one another
\* decodes to the mapping from each name to the content and the filename
\* (None without one) of its segment.
C23_RoundTrip ==
    /\ Decoded
    /\ None \notin {SegmentAt(n).name : n \in Positions}
    /\ \A n, m \in Positions : SegmentAt(n).name = SegmentAt(m).name => n = m
    => presult.parsed.parts =
           [name \in NamesSent |->
               LET seg == CHOOSE seg \in {SegmentAt(n) : n \in Positions} : seg.name = name
               IN  [value |-> seg.value, filename |-> seg.filename]]

\* C23 witness: a body of a field whose content ends in CRLF and of a file
\* part has been decoded.
C23_Witness ==
    /\ Decoded
    /\ \E n, m \in Positions :
           /\ SegmentAt(n).name # None /\ SegmentAt(m).name # None
           /\ SegmentAt(n).name # SegmentAt(m).name
           /\ SegmentAt(n).filename = None
           /\ Len(SegmentAt(n).value) > 2
           /\ SubSeq(SegmentAt(n).value, Len(SegmentAt(n).value) - 1,
                     Len(SegmentAt(n).value)) = CRLF
           /\ SegmentAt(m).filename # None

\* The response that reports the missing file.
MissingFile ==
    [statusCode |-> 400,
     body |-> [error |-> [msg |-> "Missing required field: ", arg |-> FILE]]]

\* C29: the missing file is reported exactly when no segment is named file
\* or the last such segment has no filename parameter; a file part with
\* filename="" is decoded with the filename "", and when the three
\* identifiers are there and not empty the upload is turned away by the
\* extension check, with 400 and the extension "".
C29_EmptyFilenameIsNotMissing ==
    Decoded /\ None \notin {SegmentAt(n).name : n \in Positions} =>
        LET absent == FILE \notin NamesSent \/ LastNamed(FILE).filename = None
        IN  /\ (presult.outcome.kind = "reject" /\ presult.outcome.resp = MissingFile)
                   <=> absent
            /\ ~absent /\ LastNamed(FILE).filename = <<>> =>
                   /\ presult.parsed.parts[FILE].filename = <<>>
                   /\ {STUDENT_ID, COURSE_ID, SECTION_ID} \subseteq NamesSent =>
                          /\ presult.outcome.kind = "reject"
                          /\ presult.outcome.resp.statusCode = 400
                          /\ presult.outcome.resp.body.error.msg = "Invalid file type"
                          /\ presult.outcome.resp.body.error.arg = <<>>

\* C29 witness: an upload with the three identifiers and a file part with
\* filename="" has been decoded and validated.
C29_Witness ==
    /\ Decoded
    /\ {STUDENT_ID, COURSE_ID, SECTION_ID, FILE} \subseteq NamesSent
    /\ LastNamed(FILE).filename = <<>>

(***************************************************************************)
(* Properties of the metadata reader.                                      *)
(***************************************************************************)
\* The groups of a claim: the pieces between commas and whitespace.
GroupsOf(claim) ==
    LET separator(n) == claim[n] = "," \/ claim[n] \in Whitespace
    IN  {SubSeq(claim, a, b) : <<a, b>> \in
            {ab \in (1..Len(claim)) \X (1..Len(claim)) :
                /\ ab[1] <= ab[2]
                /\ \A n \in ab[1]..ab[2] : ~separator(n)
                /\ ab[1] = 1 \/ separator(ab[1] - 1)
                /\ ab[2] = Len(claim) \/ separator(ab[2] + 1)}}

\* C11: for an identified caller and an existing record, access is allowed
\* when the caller's groups contain Faculty or Admin, whoever owns the
\* record; otherwise it is allowed exactly when the groups contain Students
\* and the record's student_id is the caller's subject id; otherwise it is
\* denied with 403.  A caller with no recognised group is denied.
C11_AccessDecision ==
    aresult # Pending =>
        LET groups == GroupsOf(ainput.user_info.groups)
            privileged == FACULTY \in groups \/ ADMIN \in groups
            owner == STUDENTS \in groups /\ ainput.item.student_id = ainput.user_info.sub
        IN  /\ privileged \/ owner => aresult.kind = "ok"
            /\ ~(privileged \/ owner) =>
                   aresult.kind = "reject" /\ aresult.resp.statusCode = 403
            /\ groups \cap {FACULTY, ADMIN, STUDENTS} = {} => aresult.kind = "reject"

\* C11 witness: a student whose groups claim is more than the bare word
\* Students has been allowed to read their own record.
C11_Witness ==
    /\ aresult # Pending
    /\ aresult.kind = "ok"
    /\ aresult.path = "owner"
    /\ ainput.user_info.groups # STUDENTS

\* Invocation i is a metadata read that has been called.
IsRead(i) == handler[i] = METADATA

\* Invocation i is a metadata read that has returned a response.
ReadReturned(i) == IsRead(i) /\ pc[i] = "done"

\* The response to a caller who cannot be identified.
UnidentifiedCaller ==
    [statusCode |-> 403,
     body |-> [error |-> [msg |-> "Unable to determine caller identity", arg |-> <<>>]]]

\* C12: a read (of some id) whose claims carry no subject id is answered
\* 403 without any lookup in the metadata store, and the response is the
\* same fixed response whether or not the record exists.
C12_UnidentifiedBeforeLookup ==
    \A i \in Invocations :
        IsRead(i) /\ ReadOf(i).id # <<>> /\ "sub" \notin DOMAIN ReadOf(i).claims =>
            /\ pc[i] = "done"
            /\ response[i] = UnidentifiedCaller
            /\ ~Attempted(i, "get_item")

\* C12 witness: two callers without subject id have been answered, one asked
\* for a record that exists and one for a record that does not.
C12_Witness ==
    \E i, j \in Invocations :
        /\ ReadReturned(i) /\ ReadReturned(j)
        /\ "sub" \notin DOMAIN ReadOf(i).claims
        /\ "sub" \notin DOMAIN ReadOf(j).claims
        /\ RecordsOf(ReadOf(i).id) # {}
        /\ ReadOf(j).id # <<>> /\ RecordsOf(ReadOf(j).id) = {}
        /\ response[i] = response[j]

\* C13: the response to an identified caller who is denied a record that
\* exists is the response an identified caller gets for an identifier that no
\* record has.
C13_DenialHidesExistence ==
    \A i, j \in Invocations :
        /\ ReadReturned(i) /\ Called(i, "get_item", "ok")
        /\ rframe[i].item # NoItem /\ response[i].statusCode # 200
        /\ ReadReturned(j) /\ Called(j, "get_item", "ok")
        /\ rframe[j].item = NoItem
        => response[i] = response[j]

\* The responses to a caller who is refused and to a read of an identifier
\* that no record has.
Forbidden ==
    [statusCode |-> 403,
     body |-> [error |-> [msg |-> "You are not authorised to access this submission",
                          arg |-> <<>>]]]
NotFound ==
    [statusCode |-> 404,
     body |-> [error |-> [msg |-> "Submission not found", arg |-> <<>>]]]

\* The caller of read i is entitled to the record r.
Entitled(i, r) ==
    LET groups == GroupsOf(UserInfo(i).groups)
    IN  \/ FACULTY \in groups
        \/ ADMIN \in groups
        \/ STUDENTS \in groups /\ r.student_id = UserInfo(i).sub

\* C13, amended: an identified caller who is not entitled to a record that
\* exists gets the fixed 403 response, whatever the record and the reason of
\* the refusal; an identified caller who asks for an identifier that no
\* record has gets the fixed 404 response.
C13_DenialIsForbidden ==
    \A i \in Invocations :
        ReadReturned(i) /\ Called(i, "get_item", "ok") =>
            /\ RecordsOf(ReadOf(i).id) = {} => response[i] = NotFound
            /\ \A r \in RecordsOf(ReadOf(i).id) : ~Entitled(i, r) => response[i] = Forbidden

\* C13 witness: a student has been refused the record of another student,
\* and an identified caller has asked for an identifier that no record has.
C13_Witness ==
    \E i, j \in Invocations :
        /\ ReadReturned(i) /\ Called(i, "get_item", "ok")
        /\ rframe[i].item # NoItem
        /\ STUDENTS \in GroupsOf(UserInfo(i).groups)
        /\ response[i].statusCode = 403
        /\ ReadReturned(j) /\ Called(j, "get_item", "ok")
        /\ rframe[j].item = NoItem

\* C14: the body of a 200 is the stored record without _version, _ttl and
\* _internal_flags: it has none of the three keys, it has every other key of
\* the stored record with the stored value, and the stored record is still
\* what it was.
C14_SanitisedRecord ==
    \A i \in Invocations :
        ReadReturned(i) /\ response[i].statusCode = 200 =>
            \E stored \in table :
                /\ stored.submission_id = ReadOf(i).id
                /\ stored = rframe[i].item
                /\ DOMAIN response[i].body =
                       DOMAIN stored \ {"_version", "_ttl", "_internal_flags"}
                /\ \A k \in DOMAIN response[i].body : response[i].body[k] = stored[k]

\* C14 witness: a record that carries the three internal attributes has
\* been returned.
C14_Witness ==
    \E i \in Invocations :
        /\ ReadReturned(i)
        /\ response[i].statusCode = 200
        /\ {"_version", "_ttl", "_internal_flags"} \subseteq DOMAIN rframe[i].item

\* C15: whatever way the audit dispatch of an allowed read fails, the
\* failure is swallowed and the caller receives the 200 response with the
\* sanitised record.
C15_AccessAuditBestEffort ==
    \A i \in Invocations :
        IsRead(i) /\ Attempted(i, "invoke") /\ ~Called(i, "invoke", "ok") =>
            /\ pc[i] = "done"
            /\ response[i].statusCode = 200
            /\ response[i].body =
                   [k \in DOMAIN rframe[i].item \ {"_version", "_ttl", "_internal_flags"}
                        |-> rframe[i].item[k]]

\* The branch of the authorisation that let the read of invocation i through.
DecisionPath(i) == Authorise(UserInfo(i), rframe[i].item).path

\* C16: the ACCESS event of an allowed read carries the caller's email and
\* tells the decision path: two events dispatched on different paths (owner,
\* privileged role) differ.
C16_AccessEventTellsPath ==
    \A i, j \in Invocations :
        /\ IsRead(i) /\ Called(i, "invoke", "ok")
        /\ IsRead(j) /\ Called(j, "invoke", "ok")
        => /\ AccessPayload(i) \in audit
           /\ AccessPayload(i).action_metadata.email = ReadOf(i).claims.email
           /\ DecisionPath(i) # DecisionPath(j) => AccessPayload(i) # AccessPayload(j)

\* C16, amended: the ACCESS event of an allowed read carries the caller's
\* subject id, the identifier of the record and, as action_metadata, exactly
\* the caller's email and the action name get_metadata.
C16_AccessEventTellsCaller ==
    \A i \in Invocations :
        IsRead(i) /\ Called(i, "invoke", "ok") =>
            \E e \in audit :
                /\ e.event_type = "ACCESS"
                /\ e.user_id = ReadOf(i).claims.sub
                /\ e.submission_id = ReadOf(i).id
                /\ e.action_metadata =
                       [email |-> ReadOf(i).claims.email, action |-> "get_metadata"]

\* C16 witness: the event of a privileged caller, whose email is not the
\* email stored in the record, has been dispatched.
C16_Witness ==
    \E i \in Invocations :
        /\ IsRead(i) /\ Called(i, "invoke", "ok")
        /\ DecisionPath(i) = "privileged"
        /\ ReadOf(i).claims.email # rframe[i].item.email

\* C18: a metadata read that has ended has returned a response with status
\* 200, 400, 403, 404 or 500: no error leaves the handler.
C18_ReadAlwaysResponds ==
    \A i \in Invocations :
        IsRead(i) /\ pc[i] \notin {"get_item", "access_invoke"} =>
            /\ pc[i] = "done"
            /\ response[i].statusCode \in {200, 400, 403, 404, 500}

(***************************************************************************)
(* Properties of the handlers together.                                    *)
(***************************************************************************)
\* Invocation i is an upload request that has been received.
IsIntake(i) == handler[i] = INTAKE

\* The generic response to an unexpected internal error.
InternalServerError ==
    [statusCode |-> 500,
     body |-> [error |-> [msg |-> "Internal server error", arg |-> <<>>]]]

\* C17: an intake invocation never ends with an error leaving the handler;
\* it has no response until it ends and then has one, with status 200, 400,
\* 413 or 500; and when a step after the CORS preflight raises an error that
\* no inner handler catches, the response is the 500 with the fixed body
\* {"error": "Internal server error"}, which carries nothing of the error.
C17_IntakeAlwaysResponds ==
    \A i \in Invocations :
        IsIntake(i) =>
            /\ pc[i] # "raised"
            /\ pc[i] # "done" => response[i] = NoResponse
            /\ pc[i] = "done" => response[i].statusCode \in {200, 400, 413, 500}
            /\ Preflight[frame[i].event].kind = "raise" =>
                   pc[i] = "done" /\ response[i] = InternalServerError

\* C17 witness: an upload whose course_id cannot be decoded, which raises
\* inside the handler, has been answered, and so has a successful upload.
C17_Witness ==
    \E i, j \in Invocations :
        /\ IsIntake(i) /\ pc[i] = "done"
        /\ Preflight[frame[i].event].kind = "raise"
        /\ IsIntake(j) /\ pc[j] = "done" /\ response[j].statusCode = 200
        /\ Called(j, "put_object", "ok")

\* The successful uploads of request k.
SuccessesOf(k) == {i \in Invocations : Succeeded(i) /\ frame[i].event = k}

\* C19: the successful uploads of one and the same request have as many
\* different identifiers as there are uploads, and the stores hold as many
\* records and as many blobs for them; the record and the blob of each are
\* the ones that upload wrote, so no later upload has overwritten them.
C19_UploadsNotIdempotent ==
    \A k \in Events : SuccessesOf(k) # {} =>
        LET ids == {response[i].body.submission_id : i \in SuccessesOf(k)}
        IN  /\ Cardinality(ids) = Cardinality(SuccessesOf(k))
            /\ Cardinality({r \in table : r.submission_id \in ids}) =
                   Cardinality(SuccessesOf(k))
            /\ Cardinality({o \in s3 : o.Metadata.submission_id \in ids}) =
                   Cardinality(SuccessesOf(k))
            /\ \A i \in SuccessesOf(k) :
                   /\ \E r \in table :
                          /\ r.submission_id = response[i].body.submission_id
                          /\ r.upload_timestamp = response[i].body.upload_timestamp
                   /\ \E o \in s3 :
                          /\ o.Metadata.submission_id = response[i].body.submission_id
                          /\ o.Body = SentOf(i).file_content

\* C19 witness: the same request has been uploaded successfully by every
\* invocation there is.
C19_Witness ==
    \E k \in Events : SuccessesOf(k) = Invocations

\* C20: every step of every handler (intake, metadata reader, status
\* reader, audit logger) leaves each record of the metadata store in the
\* store with all its fields as they were, and no two records of the store
\* have the same identifier.
C20_RecordsImmutable ==
    [][/\ \A r \in table : r \in table'
       /\ \A r1, r2 \in table' : r1.submission_id = r2.submission_id => r1 = r2]_vars

\* C20 witness: after an upload was recorded, the audit logger has written
\* the audit entry of that upload, and the record is still in the store.
C20_Witness ==
    \E i, j \in Invocations :
        /\ Succeeded(i)
        /\ handler[j] = AUDIT_LOGGER
        /\ Called(j, "audit_put_item", "ok")
        /\ rframe[j].item.submission_id = response[i].body.submission_id
        /\ Item(i) \in table

----------------------------------------------------------------------------
\* Undecodable identifiers.

\* The form of request k has the file and the three identifiers, none of them
\* blank, and the bytes of at least one identifier are not UTF-8.
UndecodableIdentifier(k) ==
    LET request == RequestList[k]
    IN  /\ request.event.httpMethod = "POST"
        /\ request.sent # NoForm
        /\ request.sent.file_name # None
        /\ \A j \in 1..3 : \E n \in 1..Len(request.sent.fields) :
               request.sent.fields[n][1] = REQUIRED_FIELDS[j]
        /\ \A n \in 1..Len(request.sent.fields) : ~Blank(request.sent.fields[n][2])
        /\ \E n \in 1..Len(request.sent.fields) : ~Utf8Valid(request.sent.fields[n][2])

\* C30: an upload with all the parts present whose identifier bytes are not
\* valid UTF-8 is answered with status 400, and it has made no call to the
\* blob store, the metadata store or the audit function and has no
\* submission identifier.
C30_UndecodableIdentifierRejected ==
    \A i \in Invocations :
        IsIntake(i) /\ pc[i] = "done" /\ UndecodableIdentifier(frame[i].event) =>
            /\ response[i].statusCode = 400
            /\ calls[i] = <<>>
            /\ frame[i].submission_id = NoId

----------------------------------------------------------------------------
\* End to end: upload, then read.

\* Invocation j is a metadata read, by a caller in the Students group with
\* the subject id of the uploader of invocation i, of the identifier that
\* upload was given, and its lookup has returned the record the upload wrote.
ReadsOwnUpload(i, j) ==
    /\ Succeeded(i)
    /\ handler[j] = METADATA
    /\ pc[j] = "done"
    /\ ReadOf(j).id = response[i].body.submission_id
    /\ EventOf(i).sub # None
    /\ UserInfo(j).sub = EventOf(i).sub
    /\ UserInfo(j).email = EventOf(i).email
    /\ UserInfo(j).groups = STUDENTS
    /\ rframe[j].item = Item(i)

\* C24: a caller in the Students group who reads the metadata of the
\* identifier their own successful upload was given, after that upload, is
\* answered 200 with the sanitised record.
C24_UploaderReadsOwnRecord ==
    \A i, j \in Invocations :
        ReadsOwnUpload(i, j) =>
            response[j] = _build_response(200, Sanitise(Item(i)))

----------------------------------------------------------------------------
\* The order of the steps of the intake.

\* The external calls an intake invocation can have made, in the order it
\* makes them: the blob write, the metadata write once the blob write has
\* succeeded, the audit dispatch once the metadata write has succeeded.
CallOrder ==
    {<<>>,
     <<<<"put_object", "error">>>>,
     <<<<"put_object", "ok">>>>,
     <<<<"put_object", "ok">>, <<"put_item", "error">>>>,
     <<<<"put_object", "ok">>, <<"put_item", "ok">>>>,
     <<<<"put_object", "ok">>, <<"put_item", "ok">>, <<"invoke", "ok">>>>,
     <<<<"put_object", "ok">>, <<"put_item", "ok">>, <<"invoke", "error">>>>}

\* The UPLOAD events dispatched so far.
Uploads == {e \in audit : e.event_type = "UPLOAD"}

\* C25: an intake invocation has an identifier only when its request passed
\* validation, makes its calls in the order blob write, metadata write,
\* audit dispatch, each only after the one before it succeeded and none
\* twice, and has its response only when it has ended; a dispatched UPLOAD
\* event is the event of one invocation whose two writes succeeded, carries
\* the identifier of the record that invocation wrote, and no two UPLOAD
\* events carry the same identifier.
C25_StepsInOrder ==
    /\ \A i \in Invocations : IsIntake(i) =>
           /\ frame[i].submission_id # NoId => Preflight[frame[i].event].kind = "ok"
           /\ calls[i] # <<>> => frame[i].submission_id # NoId
           /\ calls[i] \in CallOrder
           /\ response[i] # NoResponse => pc[i] = "done"
           /\ Called(i, "put_object", "ok") => S3Object(i) \in s3
           /\ Called(i, "put_item", "ok") => Item(i) \in table
           /\ Called(i, "invoke", "ok") => AuditPayload(i) \in Uploads
    /\ \A e \in Uploads : \E i \in Invocations :
           /\ IsIntake(i)
           /\ Called(i, "invoke", "ok")
           /\ e = AuditPayload(i)
           /\ e.submission_id = Item(i).submission_id
    /\ \A e1, e2 \in Uploads : e1.submission_id = e2.submission_id => e1 = e2

\* C25 witness: one upload has dispatched its event and has been answered,
\* and an upload whose metadata write failed has ended without dispatching
\* one.
C25_Witness ==
    \E i, j \in Invocations :
        /\ i # j
        /\ IsIntake(i) /\ Called(i, "invoke", "ok") /\ pc[i] = "done"
        /\ IsIntake(j) /\ Called(j, "put_item", "error") /\ pc[j] = "done"

----------------------------------------------------------------------------
\* The audit trail of the metadata reader.

\* The number of times invocation i has called invoke.
Dispatches(i) ==
    Cardinality({n \in 1..Len(calls[i]) : calls[i][n][1] = "invoke"})

\* The lookup of read i has found a record the caller is entitled to.
AllowedRead(i) ==
    /\ IsRead(i)
    /\ Called(i, "get_item", "ok")
    /\ rframe[i].item # NoItem
    /\ Authorise(UserInfo(i), rframe[i].item).kind = "ok"

\* The ACCESS events dispatched so far.
Accesses == {e \in audit : e.event_type = "ACCESS"}

\* C26: a read that has been answered 200 is an allowed read that called
\* invoke exactly once, with an ACCESS payload, before its response; an
\* allowed read has no response while the call is pending; a read answered
\* 400, 403, 404 or 500 has not called invoke; and every ACCESS event
\* dispatched is the event of an allowed read, so a refused read leaves none.
C26_OneAccessEventPerAllowedRead ==
    /\ \A i \in Invocations : IsRead(i) =>
           /\ pc[i] = "access_invoke" =>
                  AllowedRead(i) /\ Dispatches(i) = 0 /\ response[i] = NoResponse
           /\ AllowedRead(i) /\ pc[i] # "access_invoke" => Dispatches(i) = 1
           /\ pc[i] = "done" /\ response[i].statusCode = 200 =>
                  /\ AllowedRead(i)
                  /\ Dispatches(i) = 1
                  /\ calls[i][Len(calls[i])][1] = "invoke"
           /\ pc[i] = "done" /\ response[i].statusCode \in {400, 403, 404, 500} =>
                  Dispatches(i) = 0
           /\ ~AllowedRead(i) => Dispatches(i) = 0
           /\ Called(i, "invoke", "ok") => AccessPayload(i) \in Accesses
    /\ \A e \in Accesses : \E i \in Invocations :
           AllowedRead(i) /\ Called(i, "invoke", "ok") /\ e = AccessPayload(i)

\* C26 witness: an allowed read has been answered 200 after its dispatch,
\* and a read of the same record by a student who does not own it has been
\* answered 403.
C26_Witness ==
    \E i, j \in Invocations :
        /\ AllowedRead(i) /\ pc[i] = "done" /\ response[i].statusCode = 200
        /\ Called(i, "invoke", "ok")
        /\ IsRead(j) /\ pc[j] = "done" /\ response[j] = Forbidden
        /\ rframe[j].item # NoItem
        /\ ReadOf(j).id = ReadOf(i).id

----------------------------------------------------------------------------
\* The audit log.

IsLogger(i) == handler[i] = AUDIT_LOGGER

\* The event has one of the four event types, a user and a submission.
Acceptable(event) ==
    /\ "event_type" \in DOMAIN event
    /\ event.event_type \in {"UPLOAD", "ACCESS", "DOWNLOAD", "DELETE"}
    /\ "user_id" \in DOMAIN event /\ event.user_id # <<>>
    /\ "submission_id" \in DOMAIN event /\ event.submission_id # <<>>

\* The logger invocations whose put_item has succeeded.
Puts == {i \in Invocations : IsLogger(i) /\ Called(i, "audit_put_item", "ok")}

\* The audit table holds one record for each put that succeeded, each under
\* an audit_id of its own, and nothing else.
OneRecordPerPut ==
    /\ audit_table = {rframe[i].item : i \in Puts}
    /\ Cardinality({r.audit_id : r \in audit_table}) = Cardinality(Puts)

\* C27: the audit table holds exactly one record, under an audit_id of its
\* own, for each logger invocation whose event is acceptable and whose put
\* succeeded, and that invocation returns "logged" with that audit_id; every
\* other logger invocation that has ended has returned "error" and has no
\* record in the table.
C27_AuditLogAppendOnly ==
    /\ OneRecordPerPut
    /\ \A i \in Invocations :
           IsLogger(i) /\ pc[i] # "audit_put_item" =>
               /\ pc[i] = "done"
               /\ IF Acceptable(rframe[i].request) /\ i \in Puts
                  THEN response[i] = Logged(rframe[i].item.audit_id)
                  ELSE /\ response[i].status = "error"
                       /\ i \notin Puts

----------------------------------------------------------------------------
\* The status endpoint.

IsStatus(i) == handler[i] = STATUS
StatusOf(i) == StatusRequestList[rframe[i].request]

\* The record the lookup of status read i returned is not the caller's: the
\* caller is a student and neither the student nor the uploader of the
\* record.
NotTheirs(i) ==
    /\ rframe[i].item # NoItem
    /\ "sub" \in DOMAIN StatusOf(i).claims
    /\ StatusOf(i).claims.groups = STUDENTS
    /\ rframe[i].item.student_id # StatusOf(i).claims.sub
    /\ rframe[i].item.user_id # StatusOf(i).claims.sub

\* A status read without id is answered 400 without a lookup; a status read
\* with an id whose lookup returned is answered 200 with exactly
\* submission_id, status and upload_timestamp of the record if there is one,
\* and 404 if there is none; and a status read calls nothing but get_item,
\* once.
StatusAnswers ==
    \A i \in Invocations : IsStatus(i) =>
        /\ StatusOf(i).id = <<>> =>
               /\ pc[i] = "done" /\ response[i].statusCode = 400
               /\ calls[i] = <<>>
        /\ Called(i, "get_item", "ok") =>
               /\ pc[i] = "done"
               /\ IF rframe[i].item = NoItem
                  THEN response[i] = NotFound
                  ELSE /\ response[i].statusCode = 200
                       /\ DOMAIN response[i].body =
                              {"submission_id", "status", "upload_timestamp"}
                       /\ \A k \in DOMAIN response[i].body :
                              response[i].body[k] = rframe[i].item[k]
                       /\ response[i].body.submission_id = StatusOf(i).id
        /\ \A n \in 1..Len(calls[i]) : calls[i][n][1] = "get_item"
        /\ Len(calls[i]) <= 1

\* A step of a status read leaves the blob store, the metadata store, the
\* audit sink and the audit table as they were.
StatusStepWritesNothing ==
    \A i \in Invocations :
        pc'[i] # pc[i] /\ handler'[i] = STATUS =>
            UNCHANGED <<s3, table, audit, audit_table>>

\* C28: the status endpoint answers 400 to a read without id, and to a read
\* with an id 200 with exactly submission_id, status and upload_timestamp
\* when the lookup finds the record, whatever the claims of the caller, and
\* 404 when it finds none; no step of a status read writes to a store or
\* dispatches an audit notification.
C28_StatusUnchecked == []StatusAnswers /\ [][StatusStepWritesNothing]_vars

\* C28 witness: a student has been shown the status of a record that they
\* neither uploaded nor are the student of.
C28_Witness ==
    \E i \in Invocations :
        /\ IsStatus(i) /\ pc[i] = "done" /\ NotTheirs(i)
        /\ response[i].statusCode = 200

=============================================================================
